---- MODULE Spec2Model ----
(***************************************************************************)
(* Billing, caching and retry engine of the Swarms API gateway             *)
(* (src/api/api.py).                                                       *)
(*                                                                         *)
(* One server process is modelled.  Its async handlers                     *)
(* (run_swarm_completion, _run_agent_completion) run on one event loop     *)
(* and give it up only at asyncio.sleep; the swarms of a batch request     *)
(* (run_batch_completions) run create_swarm in pool threads and interleave *)
(* freely, statement by statement, with everything else.  The credit       *)
(* store (two Supabase tables) is shared by all of them.                   *)
(*                                                                         *)
(* Money is counted in units of 1/UnitsPerCredit credit; Decimal           *)
(* arithmetic is exact, so integer arithmetic on units is what the code    *)
(* computes.  Text is a sequence of characters; an Optional[str] is a      *)
(* record [none, s].  Request logging to swarms_api_logs (log_api_request, *)
(* which swallows its own failures and is never read back by a handler)    *)
(* is not part of the state.                                               *)
(***************************************************************************)
EXTENDS Integers, Sequences, FiniteSets, TLC

(***************************************************************************)
(* Bounds of the model                                                     *)
(***************************************************************************)
\* number of request slots (a sync request, one swarm of a batch, or an
\* agent completion each take one slot)
NumReq == 2
\* largest total_cost, in units, that calculate_swarm_cost returns (every
\* swarm here has an agent, so its cost is at least the flat fee)
MaxCost == 3
\* initial promotional balance and paid balance, in units
MaxFree == 1
MaxPaid == 1
\* units per whole credit (int(deduction) truncates to whole credits)
UnitsPerCredit == 2
\* number of flex requests in the specification of the retry loop
NumFlex == 1
\* number of jobs handed to the scheduler
NumJobs == 1
\* calculate_swarm_cost on its own: longest agent list, most tokens of a task
MaxAgents == 2
MaxTaskTokens == 1
\* eviction: entries that the cache holds above one less than its cap
MaxExtra == 2

(***************************************************************************)
(* Program constants                                                       *)
(***************************************************************************)
\* api.py:748 sets 3600; api.py:1567 rebinds the same module global to 300
\* before any request is served, so 300 is the value every reader sees
CACHE_TTL == 300
MAX_CACHE_SIZE == 1000
\* api.py:750 sets 300; api.py:1568 rebinds it to 60
CACHE_CLEANUP_INTERVAL == 60
\* the value api.py:748 gives to CACHE_TTL ("1 hour in seconds"), which no
\* request ever reads
DEFAULT_CACHE_TTL == 3600
PROMPT_TOKEN_LIMIT == 200000

\* the wall-clock instants (seconds) at which something happens
Times == {0, 5, 299, 300}

R == 1..NumReq

Max(a, b) == IF a >= b THEN a ELSE b

(***************************************************************************)
(* Python values                                                           *)
(***************************************************************************)
None == [none |-> TRUE, s |-> <<>>]
Str(s) == [none |-> FALSE, s |-> s]
\* truthiness of an Optional[str] / Optional[list]
Truthy(x) == ~x.none /\ Len(x.s) > 0

\* "sep".join(parts) for parts that are all str
RECURSIVE Join(_, _)
Join(parts, sep) ==
    IF Len(parts) = 0 THEN <<>>
    ELSE IF Len(parts) = 1 THEN parts[1]
    ELSE parts[1] \o sep \o Join(Tail(parts), sep)

\* repr() of an Optional[str] inside str(dict) / str(list)
Repr(x) == IF x.none THEN <<"None">> ELSE <<"'">> \o x.s \o <<"'">>

RECURSIVE ReprAll(_)
ReprAll(items) ==
    IF Len(items) = 0 THEN <<>>
    ELSE <<Repr(Str(items[1]))>> \o ReprAll(Tail(items))

\* str(list of str)
StrList(items) == <<"[">> \o Join(ReprAll(items), <<",">>) \o <<"]">>

(***************************************************************************)
(* Inputs: agent and swarm specifications                                  *)
(***************************************************************************)
\* litellm's model_list
model_list == {<<"gpt-4o-mini">>}

AgentOk ==
    [agent_name |-> Str(<<"a">>), model_name |-> Str(<<"gpt-4o-mini">>),
     system_prompt |-> Str(<<"p">>), description |-> None,
     temperature |-> <<"0.5">>, max_loops |-> <<"1">>, prompt_tokens |-> 3]
AgentBadModel == [AgentOk EXCEPT !.model_name = Str(<<"nope">>)]

\* Optional[ScheduleSpec]: scheduled_time in seconds of the wall clock
NoSchedule == [none |-> TRUE, scheduled_time |-> 0]
ScheduleAt(t) == [none |-> FALSE, scheduled_time |-> t]

SpecA ==
    [name |-> Str(<<"n">>), task |-> Str(<<"t">>), tasks |-> None,
     messages |-> None, swarm_type |-> Str(<<"SequentialWorkflow">>),
     max_loops |-> <<"1">>, return_history |-> <<"True">>,
     agents |-> <<AgentOk>>, service_tier |-> "standard",
     schedule |-> NoSchedule]
SpecAFlex == [SpecA EXCEPT !.service_tier = "flex"]
SpecNoInput == [SpecA EXCEPT !.task = None]
SpecBadModel == [SpecA EXCEPT !.name = Str(<<"m">>), !.agents = <<AgentBadModel>>]

SwarmSpecs == {SpecA, SpecAFlex, SpecNoInput, SpecBadModel}

\* a list of tasks and no task; the second of two agents names an unknown model
SpecBadModelTasks ==
    [SpecA EXCEPT !.name = Str(<<"b">>), !.task = None,
                  !.tasks = Str(<< <<"t">> >>),
                  !.agents = <<AgentOk, AgentBadModel>>]
\* the instant for which SpecScheduled is scheduled
ActivationTime == 300
\* a valid swarm that carries a schedule
SpecScheduled == [SpecA EXCEPT !.name = Str(<<"s">>), !.schedule = ScheduleAt(ActivationTime)]

JobSpecs == {SpecBadModel, SpecBadModelTasks, SpecScheduled}

\* what callers hand to the scheduler: valid swarms of both tiers, a swarm
\* that fails validation, and a swarm without a schedule
ScheduledSpecs ==
    {SpecScheduled,
     [SpecAFlex EXCEPT !.name = Str(<<"f">>), !.schedule = ScheduleAt(ActivationTime)],
     [SpecBadModel EXCEPT !.schedule = ScheduleAt(ActivationTime)],
     SpecA}

\* AgentCompletion: history is None, {} or a non-empty dict
CompA == [agent_config |-> AgentOk, task |-> Str(<<"t">>), history |-> "none"]
CompHistory == [CompA EXCEPT !.history = "nonempty"]

AgentCompletions == {CompA, CompHistory}

(***************************************************************************)
(* generate_cache_key                                                      *)
(***************************************************************************)
\* str(agent_config) for one agent of the swarm
AgentConfigStr(agent) ==
    <<"{'name':">> \o Repr(agent.agent_name)
    \o <<",'model':">> \o Repr(agent.model_name)
    \o <<",'prompt':">> \o Repr(agent.system_prompt)
    \o <<",'temp':">> \o agent.temperature
    \o <<",'max_loops':">> \o agent.max_loops \o <<"}">>

RECURSIVE AgentConfigs(_)
AgentConfigs(agents) ==
    IF Len(agents) = 0 THEN <<>>
    ELSE <<Str(AgentConfigStr(agents[1]))>> \o AgentConfigs(Tail(agents))

\* the list handed to "|".join
key_parts(swarm) ==
    <<swarm.name, swarm.task, swarm.swarm_type,
      Str(swarm.max_loops), Str(swarm.return_history)>>
    \o AgentConfigs(swarm.agents)
    \o (IF Truthy(swarm.tasks) THEN <<Str(StrList(swarm.tasks.s))>> ELSE <<>>)
    \o (IF Truthy(swarm.messages) THEN <<Str(StrList(swarm.messages.s))>> ELSE <<>>)

\* str.join raises TypeError when an item is None
KeyTypeError(swarm) == \E i \in 1..Len(key_parts(swarm)) : key_parts(swarm)[i].none

RECURSIVE Texts(_)
Texts(parts) == IF Len(parts) = 0 THEN <<>> ELSE <<parts[1].s>> \o Texts(Tail(parts))

generate_cache_key(swarm) == Join(Texts(key_parts(swarm)), <<"|">>)

(***************************************************************************)
(* Callers and the credit store                                            *)
(***************************************************************************)
\* the callers: every key is valid (verify_api_key passed)
api_keys == {"k1"}
get_user_id_from_api_key(api_key) == IF api_key = "k1" THEN "u1" ELSE "u2"
Users == {"u1"}

NoRow == [exists |-> FALSE, credit |-> 0, free_credit |-> 0]
Row(credit, free) == [exists |-> TRUE, credit |-> credit, free_credit |-> free]

(***************************************************************************)
(* deduct_credits: the pure parts                                          *)
(***************************************************************************)
\* step 1: "if not response.data"
RecordMissingNever(row) == FALSE
RecordMissing(row) == ~row.exists

\* step 2: the sufficiency test on the balances that were read
InsufficientCreditsWeak(available_credit, free_credit, deduction) ==
    (available_credit + free_credit) <= deduction
InsufficientCreditsNever(available_credit, free_credit, deduction) == FALSE
InsufficientCredits(available_credit, free_credit, deduction) ==
    (available_credit + free_credit) < deduction

\* step 3: "charge_credit": int(deduction)
charge_credit(deduction) == deduction \div UnitsPerCredit

\* step 3: what follows the insert of the transaction record
AfterLogIgnored(inserted) == "deduct_update"
AfterLog(inserted) == IF inserted THEN "deduct_update" ELSE "raise500"

\* step 4: free_credit first, the remainder from available_credit
NewBalancesPaidFirst(available_credit, free_credit, deduction) ==
    IF available_credit >= deduction
    THEN [credit |-> available_credit - deduction, free_credit |-> free_credit]
    ELSE [credit |-> 0, free_credit |-> free_credit - (deduction - available_credit)]
NewBalances(available_credit, free_credit, deduction) ==
    IF free_credit >= deduction
    THEN [credit |-> available_credit, free_credit |-> free_credit - deduction]
    ELSE [credit |-> available_credit - (deduction - free_credit), free_credit |-> 0]

(***************************************************************************)
(* Response cache: a dict in insertion order                               *)
(***************************************************************************)
NoResponse ==
    [job_id |-> 0, status |-> "none", swarm_name |-> None, output |-> <<>>,
     service_tier |-> "none"]

InCache(cache, key) == \E i \in 1..Len(cache) : cache[i].key = key
IndexOf(cache, key) == CHOOSE i \in 1..Len(cache) : cache[i].key = key
Lookup(cache, key) == cache[IndexOf(cache, key)]
\* cache[key] = {...}: an existing key keeps its place in the dict
PutAppend(cache, key, response, timestamp) ==
    Append(cache, [key |-> key, response |-> response, timestamp |-> timestamp])
Put(cache, key, response, timestamp) ==
    LET e == [key |-> key, response |-> response, timestamp |-> timestamp]
    IN IF InCache(cache, key)
       THEN [cache EXCEPT ![IndexOf(cache, key)] = e]
       ELSE Append(cache, e)

\* the hit test of run_swarm_completion
CacheHitInclusive(age) == age <= CACHE_TTL
CacheHitNever(age) == FALSE
CacheHit(age) == age < CACHE_TTL

\* the expiry test of cleanup_cache
ExpiredStrict(age) == age > CACHE_TTL
Expired(age) == age >= CACHE_TTL

\* the dict after "del context_cache[key]" for every expired key: the other
\* entries, in their order
Unexpired(cache, now) ==
    LET Kept(entry) == ~Expired(now - entry.timestamp)
    IN SelectSeq(cache, Kept)

RemoveAt(seq, i) == SubSeq(seq, 1, i - 1) \o SubSeq(seq, i + 1, Len(seq))

\* the first entry of sorted(..., key=timestamp): sorted is stable
OldestIndex(cache) ==
    CHOOSE i \in 1..Len(cache) :
        /\ \A j \in 1..Len(cache) : cache[i].timestamp <= cache[j].timestamp
        /\ \A j \in 1..(i - 1) : cache[j].timestamp > cache[i].timestamp

RECURSIVE RemoveOldest(_, _)
RemoveOldest(cache, n) ==
    IF n <= 0 \/ Len(cache) = 0 THEN cache
    ELSE RemoveOldest(RemoveAt(cache, OldestIndex(cache)), n - 1)

cleanup_cache(cache, now) ==
    LET kept == Unexpired(cache, now)
    IN IF Len(kept) > MAX_CACHE_SIZE
       THEN RemoveOldest(kept, Len(kept) - MAX_CACHE_SIZE)
       ELSE kept

\* "current_time % CACHE_CLEANUP_INTERVAL < 1" on whole seconds
CleanupDue(current_time) == current_time % CACHE_CLEANUP_INTERVAL < 1

\* check_model_name
check_model_name(model_name) == ~model_name.none /\ model_name.s \in model_list

\* count_and_validate_prompts
PromptTooLong(tokens) == tokens > PROMPT_TOKEN_LIMIT

(***************************************************************************)
(* Agent cache (the second module-level cache)                             *)
(***************************************************************************)
\* agent_config.model_dump_json()
model_dump_json(agent) ==
    <<"{agent_name:">> \o Repr(agent.agent_name)
    \o <<",description:">> \o Repr(agent.description)
    \o <<",system_prompt:">> \o Repr(agent.system_prompt)
    \o <<",model_name:">> \o Repr(agent.model_name)
    \o <<",temperature:">> \o agent.temperature
    \o <<",max_loops:">> \o agent.max_loops \o <<"}">>

\* f"{agent_config.model_dump_json()}_{task}"
agent_cache_key(completion) ==
    model_dump_json(completion.agent_config) \o <<"_">>
    \o (IF completion.task.none THEN <<"None">> ELSE completion.task.s)

\* the hit test of _run_agent_completion
AgentCacheHit(age) == age <= CACHE_TTL

\* cleanup_agent_cache: expired entries only
RECURSIVE cleanup_agent_cache(_, _)
cleanup_agent_cache(cache, now) ==
    IF Len(cache) = 0 THEN <<>>
    ELSE IF now - cache[1].timestamp > CACHE_TTL
    THEN cleanup_agent_cache(Tail(cache), now)
    ELSE <<cache[1]>> \o cleanup_agent_cache(Tail(cache), now)

\* the task handed to agent.run: history_prompt + task, where
\* history_prompt is f"History: {history_str}\n\n" if history is not None,
\* else ""
agent_task(completion) ==
    LET history_prompt ==
            IF completion.history = "none" THEN <<>>
            ELSE <<"History: ">>
                 \o (IF completion.history = "nonempty" THEN <<"k:\nv">> ELSE <<>>)
                 \o <<"\n\n">>
    IN history_prompt
       \o (IF completion.task.none THEN <<"None">> ELSE completion.task.s)

\* what _run_agent_completion raises before it looks at the cache, 0 if
\* nothing: "".join(prompt_parts) raises TypeError on a non-empty history
\* dict (a 500), then the prompt length, the model and the name are checked
AgentValidationStatus(completion) ==
    IF completion.history = "nonempty" THEN 500
    ELSE IF PromptTooLong(completion.agent_config.prompt_tokens) THEN 400
    ELSE IF ~check_model_name(completion.agent_config.model_name) THEN 400
    ELSE IF ~Truthy(completion.agent_config.agent_name) THEN 400
    ELSE 0

(***************************************************************************)
(* Flex retry policy of run_swarm_completion                               *)
(***************************************************************************)
max_retries_four(service_tier) == IF service_tier = "flex" THEN 4 ELSE 1
max_retries(service_tier) == IF service_tier = "flex" THEN 3 ELSE 1

RECURSIVE Pow2(_)
Pow2(n) == IF n = 0 THEN 1 ELSE 2 * Pow2(n - 1)
backoff_time(attempt) == Pow2(attempt) * 5

\* the except clause: sleep and continue, or re-raise
RetryAllowedAnyFailure(status_code, service_tier, attempt) ==
    /\ service_tier = "flex"
    /\ attempt < max_retries(service_tier) - 1
RetryAllowed(status_code, service_tier, attempt) ==
    /\ status_code = 429
    /\ service_tier = "flex"
    /\ attempt < max_retries(service_tier) - 1

(***************************************************************************)
(* create_swarm: order of its steps                                        *)
(***************************************************************************)
create_swarm_next_unbilled(stage) ==
    CASE stage = "validate" -> "run"
      [] stage = "run" -> "cost"
      [] stage = "cost" -> "return"
      [] stage = "deduct" -> "return"
create_swarm_next_prepaid(stage) ==
    CASE stage = "validate" -> "cost"
      [] stage = "cost" -> "deduct_select"
      [] stage = "deduct" -> "run"
      [] stage = "run" -> "return"
create_swarm_next_unpaid(stage) ==
    CASE stage = "validate" -> "run"
      [] stage = "run" -> "return"
      [] stage = "cost" -> "deduct_select"
      [] stage = "deduct" -> "return"
create_swarm_next(stage) ==
    CASE stage = "validate" -> "run"
      [] stage = "run" -> "cost"
      [] stage = "cost" -> "deduct_select"
      [] stage = "deduct" -> "return"

\* validate_swarm_spec: the early test
NoInput(swarm) == ~(Truthy(swarm.task) \/ Truthy(swarm.tasks) \/ Truthy(swarm.messages))

\* validate_swarm_spec followed by create_single_agent for every agent:
\* the status raised, 0 if none
ValidationStatus(swarm) ==
    IF NoInput(swarm) THEN 400
    ELSE IF \E i \in 1..Len(swarm.agents) :
              \/ ~check_model_name(swarm.agents[i].model_name)
              \/ PromptTooLong(swarm.agents[i].prompt_tokens)
    THEN 400
    ELSE IF \E i \in 1..Len(swarm.agents) : ~Truthy(swarm.agents[i].agent_name)
    THEN 400
    ELSE 0

\* any_to_str(x) of the swarms library: a text made from the value
any_to_str(x) == <<"any_to_str(">> \o x \o <<")">>

\* validate_swarm_spec: "Determine task/tasks", the pair returned
validate_swarm_spec(swarm) ==
    IF ~swarm.task.none
    THEN [task |-> swarm.task, tasks |-> None]
    ELSE IF ~swarm.messages.none
    THEN [task |-> Str(any_to_str(swarm.messages.s)), tasks |-> None]
    ELSE IF Truthy(swarm.task) /\ ~swarm.messages.none
    THEN [task |-> Str(any_to_str(swarm.messages.s) \o <<" \n\n User: ">> \o swarm.task.s),
          tasks |-> None]
    ELSE IF ~swarm.tasks.none
    THEN [task |-> None, tasks |-> swarm.tasks]
    ELSE [task |-> None, tasks |-> None]

\* generate_key(): a random key, never issued twice; the one that request r
\* draws is named after r
generate_key(r) == r

(***************************************************************************)
(* calculate_swarm_cost                                                    *)
(*                                                                         *)
(* A text is given by its token count (count_tokens is the tokenizer's).   *)
(* Money is counted here in cost units of 1/32 of a millionth of a credit: *)
(* every product below is then an integer, and the float products by 0.25  *)
(* (a power of two) are exact.                                             *)
(***************************************************************************)
\* cost units per millionth of a credit: 2 for the half in 4.50, 16 for two
\* quarters
CostUnit == 2 * 16

COST_PER_AGENT == 10000 * CostUnit
\* per token: 2.00 and 4.50 per million tokens
COST_PER_1M_INPUT_TOKENS == 2 * CostUnit
COST_PER_1M_OUTPUT_TOKENS == 9 * 16

\* x * 0.25
Quarter(x) == x \div 4

\* current_time.hour >= 20 or current_time.hour < 6
is_night_time_late(hour) == hour > 20 \/ hour < 6
is_night_time(hour) == hour >= 20 \/ hour < 6

\* the agents handed to calculate_swarm_cost: name, tokens of the system
\* prompt (0: none), and the memory (its tokens, or reading it raises)
CostAgents ==
    {[agent_name |-> "a", prompt_tokens |-> 1, memory |-> [raises |-> FALSE, tokens |-> 0]],
     [agent_name |-> "a", prompt_tokens |-> 0, memory |-> [raises |-> TRUE, tokens |-> 0]],
     [agent_name |-> "b", prompt_tokens |-> 2, memory |-> [raises |-> FALSE, tokens |-> 1]]}

AgentLists == UNION {[1..n -> CostAgents] : n \in 1..MaxAgents}

\* agent_outputs: None, a str, a list of messages (the tokens of each
\* content), or a value of another type; tokens is empty for an empty value
AgentOutputs ==
    {[shape |-> "none", tokens |-> <<>>],
     [shape |-> "str", tokens |-> <<3>>],
     [shape |-> "list", tokens |-> <<1, 2>>],
     [shape |-> "list", tokens |-> <<>>],
     [shape |-> "other", tokens |-> <<1>>]}

Hours == 0..23

RECURSIVE SumSeq(_)
SumSeq(q) == IF Len(q) = 0 THEN 0 ELSE q[1] + SumSeq(Tail(q))

\* tokens of the task, of the system prompt if any, of the memory if it
\* can be read
agent_input_tokens(agent, task_tokens) ==
    task_tokens + agent.prompt_tokens
    + (IF agent.memory.raises THEN 0 ELSE agent.memory.tokens)

\* "if agent_outputs:"
OutputsTruthy(agent_outputs) ==
    agent_outputs.shape # "none" /\ Len(agent_outputs.tokens) > 0

\* the output tokens of one agent; for a value of another type the code
\* assigns a str, and the sum that follows raises TypeError
OutputsNeverRaise(agent_outputs) == FALSE
OutputsRaise(agent_outputs) ==
    OutputsTruthy(agent_outputs) /\ agent_outputs.shape \notin {"str", "list", "dict"}

agent_output_tokens(agent_outputs, input_tokens) ==
    IF OutputsTruthy(agent_outputs)
    THEN SumSeq(agent_outputs.tokens)
    ELSE \* int(agent_input_tokens * 2.5)
         (5 * input_tokens) \div 2

\* per_agent_tokens[agent.agent_name] = {...}: a dict in insertion order
PutAgent(per_agent, entry) ==
    IF \E i \in 1..Len(per_agent) : per_agent[i].agent_name = entry.agent_name
    THEN [i \in 1..Len(per_agent) |->
             IF per_agent[i].agent_name = entry.agent_name THEN entry ELSE per_agent[i]]
    ELSE Append(per_agent, entry)

\* the loop over the agents: the totals and the per-agent table
RECURSIVE CountTokens(_, _, _, _)
CountTokens(agents, task_tokens, agent_outputs, acc) ==
    IF Len(agents) = 0 THEN acc
    ELSE LET in == agent_input_tokens(agents[1], task_tokens)
             out == agent_output_tokens(agent_outputs, in)
         IN CountTokens(Tail(agents), task_tokens, agent_outputs,
               [total_input_tokens |-> acc.total_input_tokens + in,
                total_output_tokens |-> acc.total_output_tokens + out,
                per_agent |-> PutAgent(acc.per_agent,
                    [agent_name |-> agents[1].agent_name, input_tokens |-> in,
                     output_tokens |-> out, total_tokens |-> in + out])])

\* the flex discount, then the night discount, on one token cost term
Discounted(cost, service_tier, hour) ==
    LET flexed == IF service_tier = "flex" THEN Quarter(cost) ELSE cost
    IN IF is_night_time(hour) THEN Quarter(flexed) ELSE flexed

\* the three cost terms and their sum, before rounding
CostTerms(agents, task_tokens, agent_outputs, service_tier, hour) ==
    LET counts == CountTokens(agents, task_tokens, agent_outputs,
                     [total_input_tokens |-> 0, total_output_tokens |-> 0,
                      per_agent |-> <<>>])
        agent_cost == Len(agents) * COST_PER_AGENT
        input_token_cost ==
            Discounted(counts.total_input_tokens * COST_PER_1M_INPUT_TOKENS * Len(agents),
                       service_tier, hour)
        output_token_cost ==
            Discounted(counts.total_output_tokens * COST_PER_1M_OUTPUT_TOKENS * Len(agents),
                       service_tier, hour)
    IN [agent_cost |-> agent_cost,
        input_token_cost |-> input_token_cost,
        output_token_cost |-> output_token_cost,
        total_cost |-> agent_cost + input_token_cost + output_token_cost,
        token_counts |-> counts]

\* round(x, 6), in millionths: what a float that stands for x cost units
\* can round to (a float next to an exact half rounds either way)
Round6(x) ==
    IF 2 * (x % CostUnit) < CostUnit THEN {x \div CostUnit}
    ELSE IF 2 * (x % CostUnit) > CostUnit THEN {x \div CostUnit + 1}
    ELSE {x \div CostUnit, x \div CostUnit + 1}

NoCostInfo == [called |-> FALSE]

(***************************************************************************)
(* rate_limiter                                                            *)
(***************************************************************************)
RATE_LIMIT == 100
TIME_WINDOW == 60

\* request.client.host
Clients == {"ip1"}

\* request_counts is a defaultdict: empty at start, and a client's entry is
\* made when it is first looked up
NoClientData == [exists |-> FALSE, count |-> 0, start_time |-> 0]
ClientData(count, start_time) == [exists |-> TRUE, count |-> count, start_time |-> start_time]
NoRequestCounts == [ip \in Clients |-> NoClientData]

\* "current_time - client_data[\"start_time\"] > TIME_WINDOW"
WindowPassed(current_time, start_time) == current_time - start_time > TIME_WINDOW

\* "client_data[\"count\"] > RATE_LIMIT"
LimitExceeded(count) == count > RATE_LIMIT

(***************************************************************************)
(* State                                                                   *)
(***************************************************************************)
VARIABLES
    clock,           \* time()
    credits,         \* table swarms_cloud_users_credits, by user_id
    initial_credits, \* the table as it was at start (never written)
    charged,         \* by user_id: sum of the amounts of the deductions that
                     \* returned without an error (never read by a handler)
    services,        \* table swarms_cloud_services, the transaction log
    context_cache,   \* the swarm response cache
    agent_cache,     \* the agent response cache
    loop,            \* the handler that holds the event loop, 0 if none
    req,             \* the requests: locals of their handler and its position
    cost_info,       \* the last call of calculate_swarm_cost on its own:
                     \* its arguments and what it returned
    request_counts   \* the rate limiter's store, by client IP

vars == <<clock, credits, initial_credits, charged, services, context_cache,
          agent_cache, loop, req, cost_info, request_counts>>

IdleReq ==
    [pc |-> "idle", kind |-> "none", api_key |-> "k1", swarm |-> SpecA,
     completion |-> CompA,
     \* the list handed to POST /v1/agent/batch/completions
     agent_completions |-> <<>>,
     batch |-> 0, cache_key |-> <<>>, current_time |-> 0, attempt |-> 0,
     wake |-> 0, output |-> <<>>, cost |-> 0,
     record |-> [credit |-> 0, free_credit |-> 0],
     status_code |-> 0, detail |-> "", http_status |-> 0,
     response |-> NoResponse, from_cache |-> FALSE,
     \* observer: the lookup found an entry that was too old
     stale |-> FALSE,
     \* observers: engine runs, successful engine runs and committed balance
     \* updates of this request
     engine_runs |-> 0, engine_ok |-> 0, deducted |-> 0,
     \* observer: the times the scheduler handed this job to the handler
     dispatches |-> 0,
     \* cleanup_cache, statement by statement: the keys still to delete
     keys_to_delete |-> <<>>,
     \* rate_limiter: the client, the count read by "+=", and (observer)
     \* the instant at which the request passed the limiter
     client_ip |-> "ip1", count_read |-> 0, passed_at |-> 0]

Init ==
    /\ clock = 0
    /\ \E row \in {NoRow, Row(MaxPaid, MaxFree)} : credits = [u \in Users |-> row]
    /\ initial_credits = credits
    /\ charged = [u \in Users |-> 0]
    /\ services = <<>>
    /\ context_cache = <<>>
    /\ agent_cache = <<>>
    /\ loop = 0
    /\ req = [r \in R |-> IdleReq]
    /\ cost_info = NoCostInfo
    /\ request_counts = NoRequestCounts

(***************************************************************************)
(* How a step of a handler ends                                            *)
(***************************************************************************)
\* create_swarm raised HTTPException(status_code) (any other exception is
\* turned into a 500 by create_swarm itself)
Raised(q, status_code, detail) ==
    IF q.kind = "batch"
    THEN \* process_swarm: an "error" entry
         [q EXCEPT !.pc = "done", !.status_code = status_code, !.detail = detail]
    ELSE IF RetryAllowed(status_code, q.swarm.service_tier, q.attempt)
    THEN \* e is the 429 caught; sleep and continue
         [q EXCEPT !.pc = "sleep", !.status_code = status_code,
                   !.wake = clock + backoff_time(q.attempt)]
    ELSE \* re-raised by run_swarm_completion; run_swarm answers 500
         [q EXCEPT !.pc = "done", !.status_code = status_code,
                   !.detail = detail, !.http_status = 500]

\* create_swarm returned its output
Returned(q) ==
    IF q.kind = "batch"
    THEN [q EXCEPT !.pc = "done", !.status_code = 200]
    ELSE [q EXCEPT !.pc = "respond"]

\* the step of create_swarm after stage
Advance(q, stage) ==
    LET n == create_swarm_next(stage)
    IN IF n = "return" THEN Returned(q) ELSE [q EXCEPT !.pc = n]

\* process_swarm: the entry returned for the swarm of q
BatchEntrySuccess(q) ==
    [status |-> "success", swarm_name |-> q.swarm.name, result |-> q.output]
BatchEntry(q) ==
    [status |-> IF q.status_code = 200 THEN "success" ELSE "error",
     swarm_name |-> q.swarm.name, result |-> q.output]

\* what is left of a handler that returned: its answer and the observers
Finished(q) ==
    [IdleReq EXCEPT !.pc = "done", !.kind = q.kind, !.api_key = q.api_key,
                    !.swarm = q.swarm, !.batch = q.batch, !.output = q.output,
                    !.completion = q.completion,
                    !.agent_completions = q.agent_completions,
                    !.status_code = q.status_code, !.detail = q.detail,
                    !.http_status = q.http_status, !.stale = q.stale,
                    !.response = q.response, !.from_cache = q.from_cache,
                    !.engine_runs = q.engine_runs, !.engine_ok = q.engine_ok,
                    !.deducted = q.deducted, !.dispatches = q.dispatches]

\* the results list of run_batch_completions for the batch led by slot b,
\* as the set of its entries so far (as_completed fixes their order)
batch_results(b) ==
    {<<s, BatchEntry(req[s])>> : s \in {x \in R : req[x].batch = b /\ req[x].pc = "done"}}

\* request r goes on as q
Step(r, q) ==
    /\ req' = [req EXCEPT ![r] = IF q.pc = "done" THEN Finished(q) ELSE q]
    /\ loop' = IF loop = r /\ q.pc \in {"sleep", "done"} THEN 0 ELSE loop

\* r may take a step: a pool thread always, an async handler when it holds
\* the event loop
Running(r) == req[r].kind = "batch" \/ loop = r

(***************************************************************************)
(* Requests arrive                                                         *)
(***************************************************************************)
FirstIdle(r) == req[r].pc = "idle" /\ \A s \in 1..(r - 1) : req[s].pc # "idle"

\* POST /v1/swarm/batch/completions: every swarm of the list is submitted
\* to the pool
SubmitBatch(r) ==
    /\ FirstIdle(r)
    /\ \E n \in 1..(NumReq - r + 1), k \in api_keys :
         \E sws \in [r..(r + n - 1) -> SwarmSpecs] :
            req' = [s \in R |->
                      IF s \in r..(r + n - 1)
                      THEN [IdleReq EXCEPT !.pc = "validate", !.kind = "batch",
                                           !.api_key = k, !.swarm = sws[s],
                                           !.batch = r]
                      ELSE req[s]]
    /\ UNCHANGED <<request_counts, cost_info, clock, credits, initial_credits, charged, services,
                   context_cache, agent_cache, loop>>

(***************************************************************************)
(* run_swarm_completion, up to the retry loop                              *)
(***************************************************************************)
\* run_swarm_completion from its first line to the cache lookup, for the
\* request in slot r with the arguments held by q
run_swarm_completion_start(r, q) ==
    LET key == generate_cache_key(q.swarm)
    IN IF KeyTypeError(q.swarm)
       THEN \* "|".join raises TypeError: the outer except answers 500
            req' = [req EXCEPT ![r] = Finished([q EXCEPT !.pc = "done",
                       !.status_code = 500, !.http_status = 500,
                       !.detail = "Failed to run swarm"])]
            /\ loop' = 0
       ELSE IF InCache(context_cache, key)
               /\ CacheHit(clock - Lookup(context_cache, key).timestamp)
       THEN req' = [req EXCEPT ![r] = Finished([q EXCEPT !.pc = "done",
                       !.status_code = 200, !.http_status = 200,
                       !.from_cache = TRUE,
                       !.response = Lookup(context_cache, key).response])]
            /\ loop' = 0
       ELSE req' = [req EXCEPT ![r] = [q EXCEPT !.pc = "validate",
                       !.cache_key = key, !.current_time = clock,
                       !.attempt = 0,
                       !.stale = InCache(context_cache, key)]]
            /\ loop' = r

\* POST /v1/swarm/completions with one of the given keys and swarms: the
\* handler starts when the event loop is free and runs to the cache lookup
run_swarm_completion_by(r, keys, swarms) ==
    /\ FirstIdle(r)
    /\ loop = 0
    /\ \E k \in keys, sw \in swarms :
         run_swarm_completion_start(r,
             [IdleReq EXCEPT !.kind = "sync", !.api_key = k, !.swarm = sw])
    /\ UNCHANGED <<request_counts, cost_info, clock, credits, initial_credits, charged, services,
                   context_cache, agent_cache>>

run_swarm_completion_of(r, swarms) == run_swarm_completion_by(r, api_keys, swarms)

run_swarm_completion(r) == run_swarm_completion_of(r, SwarmSpecs)

\* asyncio.sleep(backoff_time) is over: the next attempt of the loop
Resume(r) ==
    /\ req[r].pc = "sleep"
    /\ loop = 0
    /\ clock >= req[r].wake
    /\ req' = [req EXCEPT ![r] = [@ EXCEPT !.pc = "validate", !.attempt = @ + 1,
                                            !.status_code = 0]]
    /\ loop' = r
    /\ UNCHANGED <<request_counts, cost_info, clock, credits, initial_credits, charged, services,
                   context_cache, agent_cache>>

(***************************************************************************)
(* create_swarm                                                            *)
(***************************************************************************)
\* validate_swarm_spec, the agents and the SwarmRouter
create_swarm_validate(r) ==
    /\ req[r].pc = "validate"
    /\ Running(r)
    /\ LET q == req[r]
           code == ValidationStatus(q.swarm)
       IN IF code # 0
          THEN Step(r, Raised(q, code, "validation"))
          ELSE \E built \in BOOLEAN :
                  \* Agent(...) or SwarmRouter(...) may raise: 500
                  IF built THEN Step(r, Advance(q, "validate"))
                  ELSE Step(r, Raised(q, 500, "Failed to create swarm"))
    /\ UNCHANGED <<request_counts, cost_info, clock, credits, initial_credits, charged, services,
                   context_cache, agent_cache>>

\* swarm.run / swarm.batch_run: the external engine
create_swarm_run(r) ==
    /\ req[r].pc = "run"
    /\ Running(r)
    /\ LET q == [req[r] EXCEPT !.engine_runs = @ + 1]
       IN \E outcome \in {"ok", "unavailable", "error"} :
            CASE outcome = "ok" ->
                   Step(r, Advance([q EXCEPT !.output = <<r, q.engine_runs>>,
                                             !.engine_ok = @ + 1], "run"))
              [] outcome = "unavailable" -> Step(r, Raised(q, 429, "unavailable"))
              [] outcome = "error" -> Step(r, Raised(q, 500, "Failed to create swarm"))
    /\ UNCHANGED <<request_counts, cost_info, clock, credits, initial_credits, charged, services,
                   context_cache, agent_cache>>

\* calculate_swarm_cost: total_cost, or ValueError (a 500)
create_swarm_cost(r) ==
    /\ req[r].pc = "cost"
    /\ Running(r)
    /\ \/ \E total_cost \in 1..MaxCost :
             Step(r, Advance([req[r] EXCEPT !.cost = total_cost], "cost"))
       \/ Step(r, Raised(req[r], 500, "Failed to create swarm"))
    /\ UNCHANGED <<request_counts, cost_info, clock, credits, initial_credits, charged, services,
                   context_cache, agent_cache>>

(***************************************************************************)
(* deduct_credits                                                          *)
(***************************************************************************)
\* steps 1 and 2: read the row, test the balances read
deduct_credits_select(r) ==
    /\ req[r].pc = "deduct_select"
    /\ Running(r)
    /\ LET q == req[r]
           row == credits[get_user_id_from_api_key(q.api_key)]
       IN IF RecordMissing(row)
          THEN Step(r, Raised(q, 404, "User credits record not found."))
          ELSE IF InsufficientCredits(row.credit, row.free_credit, q.cost)
          THEN Step(r, Raised(q, 402, "Insufficient credits."))
          ELSE Step(r, [q EXCEPT !.pc = "deduct_log",
                           !.record = [credit |-> row.credit,
                                       free_credit |-> row.free_credit]])
    /\ UNCHANGED <<request_counts, cost_info, clock, credits, initial_credits, charged, services,
                   context_cache, agent_cache>>

\* step 3: insert the transaction record
deduct_credits_log(r) ==
    /\ req[r].pc = "deduct_log"
    /\ Running(r)
    /\ \E inserted \in BOOLEAN :
         LET q == req[r]
             n == AfterLog(inserted)
         IN /\ services' =
                  IF inserted
                  THEN Append(services,
                         [user_id |-> get_user_id_from_api_key(q.api_key),
                          api_key |-> q.api_key,
                          charge_credit |-> charge_credit(q.cost),
                          product_name |-> q.swarm.name])
                  ELSE services
            /\ IF n = "raise500"
               THEN Step(r, Raised(q, 500, "Failed to log the credit transaction."))
               ELSE Step(r, [q EXCEPT !.pc = n])
    /\ UNCHANGED <<request_counts, cost_info, clock, credits, initial_credits, charged, context_cache,
                   agent_cache>>

\* step 4: compute the new balances from the record read, update the row
deduct_credits_update(r) ==
    /\ req[r].pc = "deduct_update"
    /\ Running(r)
    /\ LET q == req[r]
           new == NewBalances(q.record.credit, q.record.free_credit, q.cost)
           user_id == get_user_id_from_api_key(q.api_key)
       IN \E updated \in BOOLEAN :
            IF updated
            THEN /\ credits' = [credits EXCEPT ![user_id] =
                                   Row(new.credit, new.free_credit)]
                 /\ charged' = [charged EXCEPT ![user_id] = @ + q.cost]
                 /\ Step(r, Advance([q EXCEPT !.deducted = @ + 1], "deduct"))
            ELSE /\ credits' = credits
                 /\ charged' = charged
                 /\ Step(r, Raised(q, 500, "Failed to update credits."))
    /\ UNCHANGED <<request_counts, cost_info, clock, initial_credits, services, context_cache,
                   agent_cache>>

(***************************************************************************)
(* run_swarm_completion, after the retry loop                              *)
(***************************************************************************)
Respond(r) ==
    /\ req[r].pc = "respond"
    /\ Running(r)
    /\ LET q == req[r]
           response == [job_id |-> generate_key(r), status |-> "success",
                        swarm_name |-> q.swarm.name, output |-> q.output,
                        service_tier |-> q.swarm.service_tier]
           stored == Put(context_cache, q.cache_key, response, q.current_time)
       IN /\ context_cache' = IF CleanupDue(q.current_time)
                              THEN cleanup_cache(stored, clock)
                              ELSE stored
          /\ Step(r, [q EXCEPT !.pc = "done", !.status_code = 200,
                               !.http_status = 200, !.response = response])
    /\ UNCHANGED <<request_counts, cost_info, clock, credits, initial_credits, charged, services,
                   agent_cache>>

(***************************************************************************)
(* _run_agent_completion (no await inside: it keeps the event loop)        *)
(***************************************************************************)
\* POST /v1/agent/completions: the handler starts when the event loop is
\* free and runs the checks and the cache lookup
run_agent_completion(r, completions) ==
    /\ FirstIdle(r)
    /\ loop = 0
    /\ \E k \in api_keys, c \in completions :
       LET q == [IdleReq EXCEPT !.kind = "agent", !.api_key = k, !.completion = c]
           code == AgentValidationStatus(q.completion)
           key == agent_cache_key(q.completion)
       IN IF code # 0
          THEN \* run_agent answers 500 whatever was raised
               req' = [req EXCEPT ![r] = Finished([q EXCEPT !.pc = "done",
                          !.status_code = code, !.http_status = 500,
                          !.detail = "agent"])]
               /\ loop' = 0
          ELSE IF InCache(agent_cache, key)
                  /\ AgentCacheHit(clock - Lookup(agent_cache, key).timestamp)
          THEN req' = [req EXCEPT ![r] = Finished([q EXCEPT !.pc = "done",
                          !.status_code = 200, !.http_status = 200,
                          !.from_cache = TRUE,
                          !.response = Lookup(agent_cache, key).response])]
               /\ loop' = 0
          ELSE req' = [req EXCEPT ![r] = [q EXCEPT !.pc = "agent_run",
                          !.cache_key = key, !.current_time = clock]]
               /\ loop' = r
    /\ UNCHANGED <<request_counts, cost_info, clock, credits, initial_credits, charged, services,
                   context_cache, agent_cache>>

\* Agent(...), agent.run, the usage counts, the output and the cache
agent_run(r) ==
    /\ req[r].pc = "agent_run"
    /\ loop = r
    /\ LET q == [req[r] EXCEPT !.engine_runs = @ + 1]
       IN \E outcome \in {"ok", "error"} :
            IF outcome = "ok"
            THEN LET output == [job_id |-> generate_key(r), status |-> "success",
                                swarm_name |-> q.completion.agent_config.agent_name,
                                output |-> <<r, q.engine_runs>>,
                                service_tier |-> "none"]
                     stored == Put(agent_cache, q.cache_key, output, q.current_time)
                 IN /\ agent_cache' = IF CleanupDue(q.current_time)
                                      THEN cleanup_agent_cache(stored, clock)
                                      ELSE stored
                    /\ Step(r, [q EXCEPT !.pc = "done", !.status_code = 200,
                                         !.http_status = 200, !.engine_ok = @ + 1,
                                         !.response = output])
            ELSE /\ agent_cache' = agent_cache
                 /\ Step(r, [q EXCEPT !.pc = "done", !.status_code = 500,
                                      !.http_status = 500, !.detail = "agent"])
    /\ UNCHANGED <<request_counts, cost_info, clock, credits, initial_credits, charged, services,
                   context_cache>>

(***************************************************************************)
(* batched_agent_completion and its endpoint                               *)
(***************************************************************************)
\* _run_agent_completion(agent_completion, x_api_key) without await: the
\* function is a coroutine function, so the call returns a coroutine object
\* and nothing of its body runs. The loop of batched_agent_completion over
\* a non-empty list: the call raises nothing, its value is appended
batched_agent_completion(agent_completions) ==
    [i \in 1..Len(agent_completions) |->
        [coroutine |-> TRUE, agent_completion |-> agent_completions[i]]]

\* POST /v1/agent/batch/completions, from its first line to `return
\* results` (log_api_request has no await inside and catches what it
\* raises; how the framework encodes the list returned is left out)
run_agent_batch(r) ==
    /\ FirstIdle(r)
    /\ loop = 0
    /\ \E k \in api_keys, n \in 0..MaxAgents :
         \E cs \in [1..n -> AgentCompletions] :
            LET q == [IdleReq EXCEPT !.kind = "agent_batch", !.api_key = k,
                                     !.agent_completions = cs]
            IN req' = [req EXCEPT ![r] =
                         IF Len(cs) = 0
                         THEN Finished([q EXCEPT !.pc = "done", !.status_code = 400,
                                  !.http_status = 400,
                                  !.detail = "No agent completions provided"])
                         ELSE Finished([q EXCEPT !.pc = "done", !.status_code = 200,
                                  !.output = batched_agent_completion(cs)])]
    /\ UNCHANGED <<request_counts, cost_info, clock, credits, initial_credits, charged, services,
                   context_cache, agent_cache, loop>>

(***************************************************************************)
(* Time                                                                    *)
(***************************************************************************)
\* the wall clock moves on to a later instant of the set instants
TickIn(instants) ==
    /\ \E t \in instants : t > clock /\ clock' = t
    /\ UNCHANGED <<request_counts, cost_info, credits, initial_credits, charged, services,
                   context_cache, agent_cache, loop, req>>

Tick == TickIn(Times)

\* the pool threads of run_batch_completions
NextPool ==
    \/ \E r \in R : SubmitBatch(r)
    \/ \E r \in R : create_swarm_validate(r)
    \/ \E r \in R : create_swarm_run(r)
    \/ \E r \in R : create_swarm_cost(r)
    \/ \E r \in R : deduct_credits_select(r)
    \/ \E r \in R : deduct_credits_log(r)
    \/ \E r \in R : deduct_credits_update(r)

SpecPool == Init /\ [][NextPool]_vars

\* the async handlers on the event loop
NextLoop ==
    \/ \E r \in R : run_swarm_completion(r)
    \/ \E r \in R : Resume(r)
    \/ \E r \in R : create_swarm_validate(r)
    \/ \E r \in R : create_swarm_run(r)
    \/ \E r \in R : create_swarm_cost(r)
    \/ \E r \in R : deduct_credits_select(r)
    \/ \E r \in R : deduct_credits_log(r)
    \/ \E r \in R : deduct_credits_update(r)
    \/ \E r \in R : Respond(r)
    \/ \E r \in R : run_agent_completion(r, AgentCompletions)
    \/ \E r \in R : agent_run(r)
    \/ Tick

SpecLoop == Init /\ [][NextLoop]_vars

\* one swarm asked for again about an hour later
HourInstants == {DEFAULT_CACHE_TTL - 1, DEFAULT_CACHE_TTL}

NextHour ==
    \/ \E r \in R : run_swarm_completion_of(r, {SpecA})
    \/ \E r \in R : create_swarm_validate(r)
    \/ \E r \in R : create_swarm_run(r)
    \/ \E r \in R : create_swarm_cost(r)
    \/ \E r \in R : deduct_credits_select(r)
    \/ \E r \in R : deduct_credits_log(r)
    \/ \E r \in R : deduct_credits_update(r)
    \/ \E r \in R : Respond(r)
    \/ TickIn(HourInstants)

SpecHour == Init /\ [][NextHour]_vars

\* asyncio.sleep: time passes until the deadline of a sleeping handler
Elapse ==
    /\ \E r \in R : req[r].pc = "sleep" /\ clock < req[r].wake /\ clock' = req[r].wake
    /\ UNCHANGED <<request_counts, cost_info, credits, initial_credits, charged, services,
                   context_cache, agent_cache, loop, req>>

\* the steps of the handler of request r once it has started
Progress(r) ==
    \/ Resume(r)
    \/ create_swarm_validate(r)
    \/ create_swarm_run(r)
    \/ create_swarm_cost(r)
    \/ deduct_credits_select(r)
    \/ deduct_credits_log(r)
    \/ deduct_credits_update(r)
    \/ Respond(r)

\* flex requests on the event loop
NextRetry ==
    \/ \E r \in 1..NumFlex : run_swarm_completion_of(r, {SpecAFlex})
    \/ \E r \in R : Resume(r)
    \/ \E r \in R : create_swarm_validate(r)
    \/ \E r \in R : create_swarm_run(r)
    \/ \E r \in R : create_swarm_cost(r)
    \/ \E r \in R : deduct_credits_select(r)
    \/ \E r \in R : deduct_credits_log(r)
    \/ \E r \in R : deduct_credits_update(r)
    \/ \E r \in R : Respond(r)
    \/ Elapse

\* the event loop runs every handler that is ready, and its timers fire
SpecRetry ==
    /\ Init
    /\ [][NextRetry]_vars
    /\ \A r \in R : WF_vars(Progress(r))
    /\ WF_vars(Elapse)

(***************************************************************************)
(* The scheduler (section 4.4 of the specification; the source declares    *)
(* ScheduleSpec and the scheduled_jobs store only)                         *)
(***************************************************************************)
\* the pending set: a ScheduledJob is the slot that holds its JobSpec, its
\* caller and its activation time
scheduled_jobs == {r \in R : req[r].pc = "pending"}

\* the activation check
DueAtOnce(job, now) == TRUE
Due(job, now) == now >= job.swarm.schedule.scheduled_time

\* schedule(jobSpec, callerId): rejected without an activation time, else
\* Pending
schedule(r) ==
    /\ FirstIdle(r)
    /\ \E k \in api_keys, sw \in ScheduledSpecs :
         LET q == [IdleReq EXCEPT !.kind = "scheduled", !.api_key = k, !.swarm = sw]
         IN req' = [req EXCEPT ![r] =
                      IF sw.schedule.none
                      THEN Finished([q EXCEPT !.pc = "done", !.status_code = 400,
                                              !.http_status = 400,
                                              !.detail = "no activation time"])
                      ELSE [q EXCEPT !.pc = "pending"]]
    /\ UNCHANGED <<request_counts, cost_info, clock, credits, initial_credits, charged, services,
                   context_cache, agent_cache, loop>>

\* cancel(jobId): valid only while Pending
cancel(r) ==
    /\ r \in scheduled_jobs
    /\ req' = [req EXCEPT ![r].pc = "cancelled"]
    /\ UNCHANGED <<request_counts, cost_info, clock, credits, initial_credits, charged, services,
                   context_cache, agent_cache, loop>>

\* list(): the Pending jobs; those whose activation time has passed are
\* reaped as missed
list ==
    /\ \E r \in scheduled_jobs : clock > req[r].swarm.schedule.scheduled_time
    /\ req' = [r \in R |->
                 IF r \in scheduled_jobs
                    /\ clock > req[r].swarm.schedule.scheduled_time
                 THEN [req[r] EXCEPT !.pc = "missed"]
                 ELSE req[r]]
    /\ UNCHANGED <<request_counts, cost_info, clock, credits, initial_credits, charged, services,
                   context_cache, agent_cache, loop>>

\* the poll finds job r due: it leaves the pending set and its JobSpec is
\* handed to run_swarm_completion under the caller's key
Dispatch(r) ==
    /\ r \in scheduled_jobs
    /\ Due(req[r], clock)
    /\ loop = 0
    /\ run_swarm_completion_start(r, [req[r] EXCEPT !.dispatches = @ + 1])
    /\ UNCHANGED <<request_counts, cost_info, clock, credits, initial_credits, charged, services,
                   context_cache, agent_cache>>

\* the instants around the activation time
ScheduleInstants == {ActivationTime, ActivationTime + 1}

NextScheduler ==
    \/ \E r \in 1..NumJobs : schedule(r)
    \/ \E r \in R : cancel(r)
    \/ list
    \/ \E r \in R : Dispatch(r)
    \/ \E r \in R : Resume(r)
    \/ \E r \in R : create_swarm_validate(r)
    \/ \E r \in R : create_swarm_run(r)
    \/ \E r \in R : create_swarm_cost(r)
    \/ \E r \in R : deduct_credits_select(r)
    \/ \E r \in R : deduct_credits_log(r)
    \/ \E r \in R : deduct_credits_update(r)
    \/ \E r \in R : Respond(r)
    \/ TickIn(ScheduleInstants)
    \/ Elapse

\* the poller keeps polling, the wall clock keeps going, and the event
\* loop runs every handler that is ready
SpecScheduler ==
    /\ Init
    /\ [][NextScheduler]_vars
    /\ \A r \in 1..NumJobs : WF_vars(Dispatch(r)) /\ WF_vars(Progress(r))
    /\ WF_vars(TickIn(ScheduleInstants))
    /\ WF_vars(Elapse)

(***************************************************************************)
(* calculate_swarm_cost called on its own                                  *)
(***************************************************************************)
\* what calculate_swarm_cost returns or raises for the arguments args
CostResults(args) ==
    LET terms == CostTerms(args.agents, args.task_tokens, args.agent_outputs,
                           args.service_tier, args.hour)
    IN IF OutputsRaise(args.agent_outputs)
       THEN \* "Failed to calculate swarm cost": ValueError
            {[called |-> TRUE, args |-> args, raised |-> TRUE]}
       ELSE {[called |-> TRUE, args |-> args, raised |-> FALSE,
              \* the locals before rounding, in cost units
              terms |-> terms,
              \* the dict returned, money in millionths
              cost_breakdown |->
                 [agent_cost |-> a, input_token_cost |-> i,
                  output_token_cost |-> o,
                  token_counts |-> terms.token_counts,
                  num_agents |-> Len(args.agents),
                  service_tier |-> args.service_tier,
                  night_time_discount_applied |-> is_night_time(args.hour)],
              total_cost |-> t] :
                a \in Round6(terms.agent_cost), i \in Round6(terms.input_token_cost),
                o \in Round6(terms.output_token_cost), t \in Round6(terms.total_cost)}

\* one call, with any arguments
calculate_swarm_cost ==
    /\ ~cost_info.called
    /\ \E agents \in AgentLists, task_tokens \in 0..MaxTaskTokens,
          agent_outputs \in AgentOutputs, service_tier \in {"standard", "flex"},
          hour \in Hours :
         cost_info' \in CostResults([agents |-> agents, task_tokens |-> task_tokens,
                                    agent_outputs |-> agent_outputs,
                                    service_tier |-> service_tier, hour |-> hour])
    /\ UNCHANGED <<request_counts, clock, credits, initial_credits, charged, services,
                   context_cache, agent_cache, loop, req>>

NextCost == calculate_swarm_cost

SpecCost == Init /\ [][NextCost]_vars

\* the two agent endpoints; a completion may have the history {}, which is
\* not None and falsy
NextAgents ==
    \/ \E r \in R : run_agent_batch(r)
    \/ \E r \in R :
          run_agent_completion(r,
              AgentCompletions \cup {[CompA EXCEPT !.history = "empty"]})
    \/ \E r \in R : agent_run(r)
    \/ TickIn({CACHE_TTL, CACHE_TTL + 1})

SpecAgents == Init /\ [][NextAgents]_vars

\* validate_swarm_spec called on its own, for swarms with every
\* combination of task, tasks and messages (absent, empty or given): it
\* raises 400 or returns the pair
validate_swarm_spec_call(r) ==
    /\ FirstIdle(r)
    /\ \E t \in {None, Str(<<>>), Str(<<"t">>)},
          ts \in {None, Str(<<>>), Str(<< <<"t1">> >>)},
          ms \in {None, Str(<<>>), Str(<< <<"m">> >>)} :
         LET swarm == [SpecA EXCEPT !.task = t, !.tasks = ts, !.messages = ms]
             q == [IdleReq EXCEPT !.kind = "validate", !.swarm = swarm]
             code == ValidationStatus(swarm)
         IN req' = [req EXCEPT ![r] =
                      IF code # 0
                      THEN Finished([q EXCEPT !.pc = "done", !.status_code = code,
                                              !.detail = "validation"])
                      ELSE Finished([q EXCEPT !.pc = "done",
                                              !.output = validate_swarm_spec(swarm)])]
    /\ UNCHANGED <<request_counts, cost_info, clock, credits, initial_credits, charged, services,
                   context_cache, agent_cache, loop>>

NextValidate == \E r \in R : validate_swarm_spec_call(r)

SpecValidate == Init /\ [][NextValidate]_vars

\* two callers, each with an account
Callers == {"k1", "k2"}

\* valid swarms whose name and task may hold the separator of the key
KeySpecs ==
    {[SpecA EXCEPT !.name = Str(n), !.task = Str(t)] :
        n \in {<<"a">>, <<"a", "|", "b">>}, t \in {<<"c">>, <<"b", "|", "c">>}}

InitCallers ==
    /\ clock = 0
    /\ credits = [u \in {get_user_id_from_api_key(k) : k \in Callers} |->
                    Row(MaxPaid, MaxFree)]
    /\ initial_credits = credits
    /\ charged = [u \in DOMAIN credits |-> 0]
    /\ services = <<>>
    /\ context_cache = <<>>
    /\ agent_cache = <<>>
    /\ loop = 0
    /\ req = [r \in R |-> IdleReq]
    /\ cost_info = NoCostInfo
    /\ request_counts = NoRequestCounts

\* synchronous requests of the two callers
NextCallers ==
    \/ \E r \in R : run_swarm_completion_by(r, Callers, KeySpecs)
    \/ \E r \in R : create_swarm_validate(r)
    \/ \E r \in R : create_swarm_run(r)
    \/ \E r \in R : create_swarm_cost(r)
    \/ \E r \in R : deduct_credits_select(r)
    \/ \E r \in R : deduct_credits_log(r)
    \/ \E r \in R : deduct_credits_update(r)
    \/ \E r \in R : Respond(r)

SpecCallers == InitCallers /\ [][NextCallers]_vars

\* synchronous requests for swarms with an unknown model or a schedule
NextJob ==
    \/ \E r \in R : run_swarm_completion_of(r, JobSpecs)
    \/ \E r \in R : create_swarm_validate(r)
    \/ \E r \in R : create_swarm_run(r)
    \/ \E r \in R : create_swarm_cost(r)
    \/ \E r \in R : deduct_credits_select(r)
    \/ \E r \in R : deduct_credits_log(r)
    \/ \E r \in R : deduct_credits_update(r)
    \/ \E r \in R : Respond(r)

SpecJob == Init /\ [][NextJob]_vars

(***************************************************************************)
(* create_swarm with the call of calculate_swarm_cost spelt out            *)
(***************************************************************************)
\* the hours at which the estimate is made: a day hour and a night hour
EstimateHours == {12, 20}

\* "cost_info = calculate_swarm_cost(...)" with the agents built for the
\* swarm, the task and the output of the engine; count_tokens and pytz can
\* raise as well, and create_swarm turns whatever is raised into a 500.  The
\* ledger counts in its own units: total_cost is the amount in these units
\* that cost_info["total_cost"] stands for
create_swarm_cost_info(r) ==
    /\ req[r].pc = "cost"
    /\ Running(r)
    /\ \E agents \in [1..Len(req[r].swarm.agents) -> CostAgents],
          task_tokens \in 0..MaxTaskTokens, agent_outputs \in AgentOutputs,
          hour \in EstimateHours, counted \in BOOLEAN :
         LET q == req[r]
             args == [agents |-> agents, task_tokens |-> task_tokens,
                      agent_outputs |-> agent_outputs,
                      service_tier |-> q.swarm.service_tier, hour |-> hour]
         IN IF ~counted
            THEN /\ cost_info' = [called |-> TRUE, args |-> args, raised |-> TRUE]
                 /\ Step(r, Raised(q, 500, "Failed to create swarm"))
            ELSE \E info \in CostResults(args) :
                    /\ cost_info' = info
                    /\ IF info.raised
                       THEN Step(r, Raised(q, 500, "Failed to create swarm"))
                       ELSE \E total_cost \in 1..MaxCost :
                               Step(r, Advance([q EXCEPT !.cost = total_cost], "cost"))
    /\ UNCHANGED <<request_counts, clock, credits, initial_credits, charged, services,
                   context_cache, agent_cache>>

\* synchronous requests for one swarm, the estimate in detail
NextEstimate ==
    \/ \E r \in R : run_swarm_completion_of(r, {SpecA})
    \/ \E r \in R : create_swarm_validate(r)
    \/ \E r \in R : create_swarm_run(r)
    \/ \E r \in R : create_swarm_cost_info(r)
    \/ \E r \in R : deduct_credits_select(r)
    \/ \E r \in R : deduct_credits_log(r)
    \/ \E r \in R : deduct_credits_update(r)
    \/ \E r \in R : Respond(r)

SpecEstimate == Init /\ [][NextEstimate]_vars

(***************************************************************************)
(* Eviction: requests served by a process whose cache is nearly full       *)
(***************************************************************************)
\* the instant at which the bulk of the entries was created
FillTime == 60
\* the instants at which the last entries were created: their handlers
\* took current_time before, with or after the bulk and stored them later
ExtraTimes == {0, 60, 61}

\* the entry stored for the i-th of the swarms served so far
ServedEntry(i, timestamp) ==
    [key |-> <<ToString(i)>>,
     response |-> [NoResponse EXCEPT !.job_id = NumReq + i, !.status = "success",
                                     !.swarm_name = Str(<<ToString(i)>>),
                                     !.output = <<NumReq + i, 0>>,
                                     !.service_tier = "standard"],
     timestamp |-> timestamp]

\* the caches: MAX_CACHE_SIZE - 1 entries of the bulk, then up to MaxExtra
\* entries more
EvictCaches ==
    UNION {{[i \in 1..(MAX_CACHE_SIZE - 1 + n) |->
                IF i < MAX_CACHE_SIZE THEN ServedEntry(i, FillTime)
                ELSE ServedEntry(i, ts[i - MAX_CACHE_SIZE + 1])] :
              ts \in [1..n -> ExtraTimes]} : n \in 0..MaxExtra}

\* the process has served these swarms and the last of them at 61
InitEvict ==
    /\ clock = 61
    /\ \E row \in {NoRow, Row(MaxPaid, MaxFree)} : credits = [u \in Users |-> row]
    /\ initial_credits = credits
    /\ charged = [u \in Users |-> 0]
    /\ services = <<>>
    /\ context_cache \in EvictCaches
    /\ agent_cache = <<>>
    /\ loop = 0
    /\ req = [r \in R |-> IdleReq]
    /\ cost_info = NoCostInfo
    /\ request_counts = NoRequestCounts

\* the later instants: whole minutes, at which the cleanup is due, and the
\* second after one (at 61 and at 361 it is not due)
EvictInstants == {120, 300, 360, 361}

\* the next request and the steps of its handler
NextEvict ==
    \/ run_swarm_completion_of(1, {SpecA})
    \/ \E r \in R : create_swarm_validate(r)
    \/ \E r \in R : create_swarm_run(r)
    \/ \E r \in R : create_swarm_cost(r)
    \/ \E r \in R : deduct_credits_select(r)
    \/ \E r \in R : deduct_credits_log(r)
    \/ \E r \in R : deduct_credits_update(r)
    \/ \E r \in R : Respond(r)
    \/ TickIn(EvictInstants)

SpecEvict == InitEvict /\ [][NextEvict]_vars

(***************************************************************************)
(* The cache write and cleanup_cache, statement by statement               *)
(***************************************************************************)
\* the keys of the entries of cache, in dict order
RECURSIVE KeysOf(_)
KeysOf(cache) == IF Len(cache) = 0 THEN <<>> ELSE <<cache[1].key>> \o KeysOf(Tail(cache))

\* "expired_keys = [key for key, value in context_cache.items() if ...]"
expired_keys(cache, now) ==
    LET Gone(entry) == Expired(now - entry.timestamp)
    IN KeysOf(SelectSeq(cache, Gone))

\* the keys of sorted(context_cache.items(), key=timestamp)[:n]
RECURSIVE entries_to_remove(_, _)
entries_to_remove(cache, n) ==
    IF n <= 0 \/ Len(cache) = 0 THEN <<>>
    ELSE <<cache[OldestIndex(cache)].key>>
         \o entries_to_remove(RemoveAt(cache, OldestIndex(cache)), n - 1)

\* "return response"
ReturnResponse(q) == [q EXCEPT !.pc = "done", !.status_code = 200, !.http_status = 200]

\* "context_cache[cache_key] = {...}" and the test of the cleanup interval
respond_store(r) ==
    /\ req[r].pc = "respond"
    /\ Running(r)
    /\ LET q == req[r]
           response == [job_id |-> generate_key(r), status |-> "success",
                        swarm_name |-> q.swarm.name, output |-> q.output,
                        service_tier |-> q.swarm.service_tier]
       IN /\ context_cache' = Put(context_cache, q.cache_key, response, q.current_time)
          /\ IF CleanupDue(q.current_time)
             THEN Step(r, [q EXCEPT !.pc = "cleanup_expired", !.response = response])
             ELSE Step(r, ReturnResponse([q EXCEPT !.response = response]))
    /\ UNCHANGED <<request_counts, cost_info, clock, credits, initial_credits, charged, services,
                   agent_cache>>

\* cleanup_cache: current_time = time() and the list of the expired keys
cleanup_cache_expired(r) ==
    /\ req[r].pc = "cleanup_expired"
    /\ Running(r)
    /\ Step(r, [req[r] EXCEPT !.pc = "cleanup_del",
                              !.keys_to_delete = expired_keys(context_cache, clock)])
    /\ UNCHANGED <<request_counts, cost_info, clock, credits, initial_credits, charged, services,
                   context_cache, agent_cache>>

\* cleanup_cache: one turn of a "for key ...: del context_cache[key]" loop,
\* or the statement after the loop.  del raises KeyError for a key that is
\* not in the dict; run_swarm_completion turns it into a 500
cleanup_cache_del(r) ==
    /\ req[r].pc \in {"cleanup_del", "cleanup_del_oldest"}
    /\ Running(r)
    /\ LET q == req[r]
       IN IF Len(q.keys_to_delete) = 0
          THEN /\ context_cache' = context_cache
               /\ IF q.pc = "cleanup_del"
                  THEN \* "if len(context_cache) > MAX_CACHE_SIZE:"
                       IF Len(context_cache) > MAX_CACHE_SIZE
                       THEN Step(r, [q EXCEPT !.pc = "cleanup_del_oldest",
                                       !.keys_to_delete =
                                          entries_to_remove(context_cache,
                                             Len(context_cache) - MAX_CACHE_SIZE)])
                       ELSE Step(r, ReturnResponse(q))
                  ELSE Step(r, ReturnResponse(q))
          ELSE IF InCache(context_cache, Head(q.keys_to_delete))
          THEN /\ context_cache' =
                     RemoveAt(context_cache, IndexOf(context_cache, Head(q.keys_to_delete)))
               /\ Step(r, [q EXCEPT !.keys_to_delete = Tail(@)])
          ELSE /\ context_cache' = context_cache
               /\ Step(r, [q EXCEPT !.pc = "done", !.status_code = 500,
                                    !.http_status = 500, !.detail = "KeyError",
                                    !.response = NoResponse])
    /\ UNCHANGED <<request_counts, cost_info, clock, credits, initial_credits, charged, services,
                   agent_cache>>

\* the instants of the requests: one cleanup interval starts at 0, and at
\* 300 what was created at 0 has expired and another one starts
SafeInstants == {5, 300}

\* requests of both tiers for one swarm (the tier is not part of the cache
\* key), their handlers suspended in the backoff or not
NextSafe ==
    \/ \E r \in R : run_swarm_completion_of(r, {SpecA, SpecAFlex})
    \/ \E r \in R : Resume(r)
    \/ \E r \in R : create_swarm_validate(r)
    \/ \E r \in R : create_swarm_run(r)
    \/ \E r \in R : create_swarm_cost(r)
    \/ \E r \in R : deduct_credits_select(r)
    \/ \E r \in R : deduct_credits_log(r)
    \/ \E r \in R : deduct_credits_update(r)
    \/ \E r \in R : respond_store(r)
    \/ \E r \in R : cleanup_cache_expired(r)
    \/ \E r \in R : cleanup_cache_del(r)
    \/ TickIn(SafeInstants)

SpecSafe == Init /\ [][NextSafe]_vars

(***************************************************************************)
(* rate_limiter: a plain function used as a dependency, so every request   *)
(* runs it in a thread of the pool, statement by statement                 *)
(***************************************************************************)
\* "current_time = time()" and "client_data = request_counts[client_ip]"
rate_limiter_lookup(r) ==
    /\ FirstIdle(r)
    /\ \E ip \in Clients :
         /\ req' = [req EXCEPT ![r] = [IdleReq EXCEPT !.pc = "limiter_window",
                                          !.kind = "limited", !.client_ip = ip,
                                          !.current_time = clock]]
         /\ request_counts' =
               IF request_counts[ip].exists THEN request_counts
               ELSE [request_counts EXCEPT ![ip] = ClientData(0, clock)]
    /\ UNCHANGED <<clock, credits, initial_credits, charged, services,
                   context_cache, agent_cache, loop, cost_info>>

\* "if current_time - start_time > TIME_WINDOW:" and the reset
rate_limiter_window(r) ==
    /\ req[r].pc = "limiter_window"
    /\ LET q == req[r]
           client_data == request_counts[q.client_ip]
       IN /\ request_counts' =
                IF WindowPassed(q.current_time, client_data.start_time)
                THEN [request_counts EXCEPT ![q.client_ip] = ClientData(0, q.current_time)]
                ELSE request_counts
          /\ req' = [req EXCEPT ![r].pc = "limiter_read"]
    /\ UNCHANGED <<clock, credits, initial_credits, charged, services,
                   context_cache, agent_cache, loop, cost_info>>

\* "client_data[\"count\"] += 1": the read
rate_limiter_read(r) ==
    /\ req[r].pc = "limiter_read"
    /\ req' = [req EXCEPT ![r].pc = "limiter_write",
                          ![r].count_read = request_counts[req[r].client_ip].count]
    /\ UNCHANGED <<clock, credits, initial_credits, charged, services,
                   context_cache, agent_cache, loop, cost_info, request_counts>>

\* "client_data[\"count\"] += 1": the write
rate_limiter_write(r) ==
    /\ req[r].pc = "limiter_write"
    /\ request_counts' = [request_counts EXCEPT ![req[r].client_ip].count =
                                                   req[r].count_read + 1]
    /\ req' = [req EXCEPT ![r].pc = "limiter_check"]
    /\ UNCHANGED <<clock, credits, initial_credits, charged, services,
                   context_cache, agent_cache, loop, cost_info>>

\* "if client_data[\"count\"] > RATE_LIMIT: raise HTTPException(429)";
\* otherwise the request goes on to its handler
rate_limiter_check(r) ==
    /\ req[r].pc = "limiter_check"
    /\ req' = [req EXCEPT ![r] =
                  IF LimitExceeded(request_counts[req[r].client_ip].count)
                  THEN [@ EXCEPT !.pc = "done", !.status_code = 429,
                                 !.http_status = 429, !.detail = "Rate limit exceeded."]
                  ELSE [@ EXCEPT !.pc = "passed", !.passed_at = clock]]
    /\ UNCHANGED <<clock, credits, initial_credits, charged, services,
                   context_cache, agent_cache, loop, cost_info, request_counts>>

\* the requests that the client has made in its window so far, all passed
CountSoFar == RATE_LIMIT - 1

\* the client's window started at 0
InitLimit ==
    /\ clock = 0
    /\ \E row \in {NoRow, Row(MaxPaid, MaxFree)} : credits = [u \in Users |-> row]
    /\ initial_credits = credits
    /\ charged = [u \in Users |-> 0]
    /\ services = <<>>
    /\ context_cache = <<>>
    /\ agent_cache = <<>>
    /\ loop = 0
    /\ req = [r \in R |-> IdleReq]
    /\ cost_info = NoCostInfo
    /\ request_counts = [ip \in Clients |-> ClientData(CountSoFar, 0)]

\* the end of the window and the second after
LimitInstants == {TIME_WINDOW, TIME_WINDOW + 1}

NextLimit ==
    \/ \E r \in R : rate_limiter_lookup(r)
    \/ \E r \in R : rate_limiter_window(r)
    \/ \E r \in R : rate_limiter_read(r)
    \/ \E r \in R : rate_limiter_write(r)
    \/ \E r \in R : rate_limiter_check(r)
    \/ TickIn(LimitInstants)

SpecLimit == InitLimit /\ [][NextLimit]_vars

(***************************************************************************)
(* Properties of the credit ledger (checked under SpecPool)                *)
(***************************************************************************)
Total(row) == row.credit + row.free_credit
UserOf(r) == get_user_id_from_api_key(req[r].api_key)
\* request r took a step out of position p
Leaves(r, p) == req[r].pc = p /\ req'[r].pc # p

\* C1: concurrent deductions for one caller are serialized: whatever the
\* interleaving, the promotional + paid balance of an account equals its
\* initial balance minus the sum of the amounts whose deduction succeeded.
C1_DeductionsSerialized ==
    \A u \in Users :
        credits[u].exists =>
            Total(credits[u]) = Total(initial_credits[u]) - charged[u]

\* C2: a successful deduction of amount a that read the promotional balance
\* f and the paid balance c writes promotional = max(f - a, 0) and
\* paid = c - max(a - f, 0); paid is changed only if promotional becomes 0.
C2_PromotionalFirst ==
    [][\A r \in R :
         (req[r].pc = "deduct_update" /\ req'[r].deducted = req[r].deducted + 1) =>
            LET f == req[r].record.free_credit
                c == req[r].record.credit
                a == req[r].cost
                after == credits'[UserOf(r)]
            IN /\ f + c >= a
               /\ after.free_credit = Max(f - a, 0)
               /\ after.credit = c - Max(a - f, 0)
               /\ (after.credit # c => after.free_credit = 0)]_vars

\* a deduction larger than the promotional balance was committed
C2_Witness ==
    \E r \in R :
        /\ req[r].deducted = 1
        /\ credits[UserOf(r)].free_credit = 0
        /\ credits[UserOf(r)].credit < initial_credits[UserOf(r)].credit

\* C3: a deduction whose amount exceeds promotional + paid fails with 402,
\* changes no balance and writes no transaction record; an amount equal to
\* promotional + paid passes the test and goes on to be recorded.
C3_InsufficientCredit ==
    [][\A r \in R :
         (Leaves(r, "deduct_select") /\ credits[UserOf(r)].exists) =>
            LET row == credits[UserOf(r)]
                a == req[r].cost
            IN /\ a > row.credit + row.free_credit =>
                    /\ req'[r].pc = "done"
                    /\ req'[r].status_code = 402
                    /\ req'[r].deducted = 0
                    /\ credits' = credits
                    /\ services' = services
               /\ a <= row.credit + row.free_credit =>
                    /\ req'[r].pc = "deduct_log"
                    /\ req'[r].record.credit = row.credit
                    /\ req'[r].record.free_credit = row.free_credit]_vars

\* a deduction was refused for insufficient credit and the account is as it
\* would be without it
C3_Witness ==
    \E r \in R :
        /\ req[r].pc = "done"
        /\ req[r].status_code = 402
        /\ req[r].deducted = 0
        /\ Total(credits[UserOf(r)]) = Total(initial_credits[UserOf(r)]) - charged[UserOf(r)]

\* C4: the promotional balance and the paid balance of every account are
\* never negative, under any interleaving of deductions.
C4_BalancesNonNegative ==
    \A u \in Users : credits[u].credit >= 0 /\ credits[u].free_credit >= 0

\* two deductions were committed from the same balance snapshot
C4_Witness ==
    \E r1 \in R, r2 \in R :
        /\ r1 # r2
        /\ req[r1].deducted = 1
        /\ req[r2].deducted = 1
        /\ UserOf(r1) = UserOf(r2)
        /\ Total(credits[UserOf(r1)]) # Total(initial_credits[UserOf(r1)]) - charged[UserOf(r1)]

\* C5: when the insert of the transaction record fails, the deduction ends
\* with an error and no balance is updated, then or later.
C5_NoUpdateWithoutRecord ==
    [][\A r \in R :
         /\ (Leaves(r, "deduct_log") /\ services' = services) =>
               /\ req'[r].pc = "done"
               /\ req'[r].status_code = 500
               /\ req'[r].deducted = 0
               /\ credits' = credits
         /\ (req[r].pc = "done" /\ req[r].detail = "Failed to log the credit transaction.") =>
               req'[r] = req[r]]_vars

\* a deduction ended on a failed insert, with the balances as they were
C5_Witness ==
    \E r \in R :
        /\ req[r].pc = "done"
        /\ req[r].detail = "Failed to log the credit transaction."
        /\ req[r].engine_ok = 1
        /\ credits = initial_credits
        /\ services = <<>>

(***************************************************************************)
(* Properties of the synchronous swarm path and of the agent path          *)
(* (checked under SpecLoop)                                                *)
(***************************************************************************)
\* r is a synchronous swarm request answered with a freshly built envelope
SyncFresh(r) ==
    /\ req[r].kind = "sync"
    /\ req[r].pc = "done"
    /\ req[r].http_status = 200
    /\ ~req[r].from_cache
\* r is a synchronous swarm request answered from the response cache
SyncHit(r) ==
    /\ req[r].kind = "sync"
    /\ req[r].pc = "done"
    /\ req[r].from_cache
\* r arrives as a synchronous swarm request and looks up an entry of its
\* own fingerprint, entry i
Finds(r, i) ==
    /\ Leaves(r, "idle")
    /\ req'[r].kind = "sync"
    /\ \A j \in 1..Len(key_parts(req'[r].swarm)) : ~key_parts(req'[r].swarm)[j].none
    /\ i \in 1..Len(context_cache)
    /\ context_cache[i].key = generate_cache_key(req'[r].swarm)

\* C6 as stated: a request that succeeds and an identical one served from
\* its cache entry cause exactly one engine invocation and exactly one
\* deduction in total.
C6_OneInvocationInTotal ==
    \A r1 \in R, r2 \in R :
        (/\ r1 # r2
         /\ SyncFresh(r1)
         /\ SyncHit(r2)
         /\ generate_cache_key(req[r1].swarm) = generate_cache_key(req[r2].swarm)
         /\ req[r2].response = req[r1].response) =>
            /\ req[r1].engine_runs + req[r2].engine_runs = 1
            /\ req[r1].deducted + req[r2].deducted = 1

\* C6 as amended: a request that finds an entry of its fingerprint younger
\* than the TTL is answered at once with the stored response, with no engine
\* invocation, no deduction and no write; the stored response is that of a
\* request of the same fingerprint that succeeded with exactly one
\* successful engine invocation (after at most two unavailable attempts) and
\* exactly one deduction.
C6_CacheIdempotence ==
    [][\A r \in R :
         /\ \A i \in 1..Len(context_cache) :
               (Finds(r, i) /\ clock - context_cache[i].timestamp < CACHE_TTL) =>
                  /\ req'[r].pc = "done"
                  /\ req'[r].from_cache
                  /\ req'[r].http_status = 200
                  /\ req'[r].response = context_cache[i].response
                  /\ req'[r].engine_runs = 0
                  /\ req'[r].deducted = 0
                  /\ \A s \in R : req'[s].engine_runs = req[s].engine_runs
                  /\ credits' = credits
                  /\ services' = services
                  /\ context_cache' = context_cache
         /\ SyncHit(r)' =>
               \E r1 \in R \ {r} :
                  /\ SyncFresh(r1)'
                  /\ req'[r1].response = req'[r].response
                  /\ generate_cache_key(req'[r1].swarm) = generate_cache_key(req'[r].swarm)
                  /\ req'[r1].engine_ok = 1
                  /\ req'[r1].engine_runs <= 3
                  /\ req'[r1].deducted = 1
                  /\ req'[r].engine_runs = 0
                  /\ req'[r].deducted = 0]_vars

\* a request was served the response of an earlier identical request
C6_Witness ==
    \E r1 \in R, r2 \in R :
        /\ r1 # r2
        /\ SyncFresh(r1)
        /\ SyncHit(r2)
        /\ req[r2].response = req[r1].response
        /\ req[r2].response.job_id > 0
        /\ req[r1].engine_runs = 1
        /\ Len(services) = 1

\* C7: a synchronous swarm request gets a fresh success envelope only if
\* its deduction was committed; when the engine ran and the deduction
\* failed, the caller gets an error and no envelope.
C7_SuccessOnlyIfBilled ==
    \A r \in R :
        (req[r].kind = "sync" /\ req[r].pc = "done") =>
            /\ (req[r].http_status = 200 /\ ~req[r].from_cache) =>
                  (req[r].deducted = 1 /\ req[r].engine_ok = 1)
            /\ (req[r].engine_ok >= 1 /\ req[r].deducted = 0) =>
                  /\ req[r].http_status = 500
                  /\ req[r].status_code \in {402, 404, 500}
                  /\ req[r].response = NoResponse

\* the engine ran, the deduction was refused, the caller got an error
C7_Witness ==
    \E r \in R :
        /\ req[r].kind = "sync"
        /\ req[r].pc = "done"
        /\ req[r].engine_ok = 1
        /\ req[r].deducted = 0
        /\ req[r].status_code = 402
        /\ req[r].http_status = 500

\* C8: a synchronous swarm request, retries included, commits at most one
\* deduction, and no retry is started or waited for after an attempt that
\* deducted.
C8_AtMostOneDeduction ==
    [][\A r \in R :
         req'[r].kind = "sync" =>
            /\ req'[r].deducted <= 1
            /\ req'[r].pc = "sleep" => req'[r].deducted = 0
            /\ (req[r].pc = "sleep" /\ req'[r].pc # "sleep") =>
                  (req[r].deducted = 0 /\ req'[r].deducted = 0)]_vars

\* a flex request was retried and then deducted once
C8_Witness ==
    \E r \in R :
        /\ req[r].kind = "sync"
        /\ req[r].pc = "done"
        /\ req[r].swarm.service_tier = "flex"
        /\ req[r].engine_runs >= 2
        /\ req[r].deducted = 1

\* C9: every agent completion that ran the engine and was answered with
\* success has had a credit deduction committed for it.
C9_AgentCompletionBilled ==
    \A r \in R :
        (/\ req[r].kind = "agent"
         /\ req[r].pc = "done"
         /\ req[r].http_status = 200
         /\ req[r].engine_ok >= 1) => req[r].deducted >= 1

\* C10: a lookup that finds an entry of age a is a hit if a < TTL and a miss
\* if a >= TTL; a request that missed on a stale entry and succeeds has run
\* the engine and deducted, and the entry of its fingerprint is its own
\* response with its own timestamp.
C10_TtlBoundary ==
    [][\A r \in R :
         /\ \A i \in 1..Len(context_cache) :
               Finds(r, i) =>
                  LET age == clock - context_cache[i].timestamp
                  IN /\ age < CACHE_TTL =>
                          /\ req'[r].from_cache
                          /\ req'[r].response = context_cache[i].response
                     /\ age >= CACHE_TTL =>
                          /\ req'[r].pc = "validate"
                          /\ req'[r].stale
                          /\ ~req'[r].from_cache
         /\ (Leaves(r, "respond") /\ req[r].stale) =>
               /\ req'[r].engine_ok = 1
               /\ req'[r].deducted = 1
               /\ \A i \in 1..Len(context_cache') :
                     context_cache'[i].key = req[r].cache_key =>
                        /\ context_cache'[i].response = req'[r].response
                        /\ context_cache'[i].timestamp = req[r].current_time]_vars

\* a request missed on an entry of age >= TTL, ran again, and its response
\* took the place of the old entry
C10_Witness ==
    \E r \in R :
        /\ SyncFresh(r)
        /\ req[r].stale
        /\ req[r].deducted = 1
        /\ \E i \in 1..Len(context_cache) :
              /\ context_cache[i].key = generate_cache_key(req[r].swarm)
              /\ context_cache[i].response = req[r].response
              /\ context_cache[i].timestamp = CACHE_TTL

(***************************************************************************)
(* The TTL in effect (checked under SpecHour)                              *)
(***************************************************************************)
\* C11: the TTL of the swarm response cache is 3600 seconds, in the hit
\* test and in cleanup_cache: a lookup that finds an entry younger than
\* 3600 seconds (3599 seconds, say) is served that entry, and no entry
\* younger than 3600 seconds is dropped by a cleanup.
C11_HourTtl ==
    [][\A r \in R :
         /\ \A i \in 1..Len(context_cache) :
               (Finds(r, i) /\ clock - context_cache[i].timestamp < DEFAULT_CACHE_TTL) =>
                  /\ req'[r].from_cache
                  /\ req'[r].response = context_cache[i].response
         /\ Leaves(r, "respond") =>
               \A i \in 1..Len(context_cache) :
                  (/\ clock - context_cache[i].timestamp < DEFAULT_CACHE_TTL
                   /\ context_cache[i].key # req[r].cache_key) =>
                     InCache(context_cache', context_cache[i].key)]_vars

(***************************************************************************)
(* The flex retry loop (checked under SpecRetry and SpecLoop)              *)
(***************************************************************************)
\* r is a synchronous flex-tier swarm request
Flex(r) == req[r].kind = "sync" /\ req[r].swarm.service_tier = "flex"

\* C12: a flex-tier request runs the engine at most 3 times; it makes no
\* attempt after a successful one; after a third unavailable attempt it
\* does not wait again and the caller gets the failure; and every request
\* that started ends.
C12_RetryTerminates ==
    /\ [](\A r \in R :
            Flex(r) =>
               /\ req[r].engine_runs <= 3
               /\ req[r].attempt <= 2
               /\ req[r].engine_ok <= 1
               /\ (req[r].pc = "done" /\ req[r].status_code = 429) =>
                     /\ req[r].engine_runs = 3
                     /\ req[r].engine_ok = 0
                     /\ req[r].http_status = 500
                     /\ req[r].response = NoResponse)
    /\ [][\A r \in R :
            /\ (Flex(r) /\ req[r].engine_ok = 1) =>
                  req'[r].engine_runs = req[r].engine_runs
            /\ (Flex(r) /\ req[r].engine_runs = 2 /\ Leaves(r, "run")) =>
                  req'[r].pc # "sleep"]_vars
    /\ \A r \in R : (req[r].pc # "idle") ~> (req[r].pc = "done")

\* a flex request was refused after three unavailable attempts
C12_Witness ==
    \E r \in R :
        /\ Flex(r)
        /\ req[r].pc = "done"
        /\ req[r].status_code = 429
        /\ req[r].engine_runs = 3
        /\ clock >= 15

\* the attempt that request r has just made was unavailable (429)
Unavailable(r) ==
    /\ Leaves(r, "run")
    /\ \/ req'[r].pc = "sleep"
       \/ req'[r].pc = "done" /\ req'[r].status_code = 429

\* C13: after its first, second and third unavailable attempt a flex-tier
\* request waits 5, 10 and 20 seconds, in that order; only then is the
\* failure surfaced.
C13_BackoffDelays ==
    [][\A r \in R :
         (Flex(r) /\ Unavailable(r)) =>
            /\ req'[r].pc = "sleep"
            /\ req'[r].wake - clock = <<5, 10, 20>>[req'[r].engine_runs]]_vars

\* C14: a handler waits for a retry only after an unavailable (429) engine
\* attempt of a flex-tier request; a step that raises any other failure
\* ends the request at once with that failure; a standard-tier request
\* runs the engine at most once and never waits.
C14_OnlyUnavailableRetried ==
    [][\A r \in R :
         req'[r].kind = "sync" =>
            /\ (req'[r].pc = "sleep" /\ req[r].pc # "sleep") =>
                  /\ req'[r].swarm.service_tier = "flex"
                  /\ req[r].pc = "run"
                  /\ req'[r].status_code = 429
            /\ (req'[r] # req[r] /\ req'[r].status_code \notin {0, 200, 429}) =>
                  /\ req'[r].pc = "done"
                  /\ req'[r].engine_runs \in {req[r].engine_runs, req[r].engine_runs + 1}
                  /\ req'[r].engine_runs = req[r].engine_runs + 1 <=> req[r].pc = "run"
                  /\ clock' = clock
            /\ req'[r].swarm.service_tier = "standard" =>
                  /\ req'[r].engine_runs <= 1
                  /\ req'[r].pc # "sleep"
            /\ req[r].pc = "done" => req'[r] = req[r]]_vars

\* a flex request was retried once and its second attempt failed with a
\* failure that is not a 429: it ended there
C14_Witness ==
    \E r \in R :
        /\ Flex(r)
        /\ req[r].pc = "done"
        /\ req[r].status_code = 402
        /\ req[r].engine_runs = 2
        /\ req[r].engine_ok = 1

(***************************************************************************)
(* Validation and error reporting                                          *)
(***************************************************************************)
\* C15: a swarm request, synchronous or of a batch, whose task, tasks and
\* messages are all absent never gets past validation (no agent is built,
\* the engine is not run, nothing is deducted) and ends with status 400.
C15_NoInputRejected ==
    \A r \in R :
        (req[r].kind \in {"sync", "batch"} /\ NoInput(req[r].swarm)) =>
            /\ req[r].pc \in {"validate", "done"}
            /\ req[r].engine_runs = 0
            /\ req[r].deducted = 0
            /\ req[r].pc = "done" => req[r].status_code = 400

\* the swarm has an agent whose model is not in the catalog
UnknownModel(swarm) ==
    \E i \in 1..Len(swarm.agents) : ~check_model_name(swarm.agents[i].model_name)

\* C16: a swarm request with an agent whose model is not in the catalog
\* never gets past validation (no agent is built, the engine is not run,
\* nothing is deducted) and ends with the validation status 400.
C16_UnknownModelRejected ==
    \A r \in R :
        (req[r].kind \in {"sync", "batch"} /\ UnknownModel(req[r].swarm)) =>
            /\ req[r].pc \in {"validate", "done"}
            /\ req[r].engine_runs = 0
            /\ req[r].deducted = 0
            /\ req[r].pc = "done" => req[r].status_code = 400

\* C17: the synchronous endpoint answers a failed request with the status
\* of its error class: 400 for a validation failure, 402 for insufficient
\* credit, 404 for a missing credit account, and 500 only for an internal
\* failure.
C17_StatusOfErrorClass ==
    \A r \in R :
        (req[r].kind = "sync" /\ req[r].pc = "done") =>
            /\ req[r].status_code \in {400, 402, 404} =>
                  req[r].http_status = req[r].status_code
            /\ req[r].http_status = 500 => req[r].status_code = 500

(***************************************************************************)
(* Scheduled execution                                                     *)
(***************************************************************************)
\* C18: as long as the wall clock is before the activation time of the
\* schedule that a swarm request carries, the engine has not been run for
\* that request and nothing has been deducted for it.
C18_NotBeforeActivation ==
    \A r \in R :
        (/\ req[r].kind \in {"sync", "batch"}
         /\ ~req[r].swarm.schedule.none
         /\ clock < req[r].swarm.schedule.scheduled_time) =>
            /\ req[r].engine_runs = 0
            /\ req[r].deducted = 0

\* r is a job that the scheduler accepted
Scheduled(r) == req[r].kind = "scheduled" /\ ~req[r].swarm.schedule.none
ActivationOf(r) == req[r].swarm.schedule.scheduled_time

Multiplier16(service_tier, hour) ==
    (IF service_tier = "flex" THEN 1 ELSE 4) * (IF hour >= 20 \/ hour < 6 THEN 1 ELSE 4)

\* C20: the input and the output cost term are the undiscounted term times
\* 0.25 for the flex tier, times 0.25 if the hour h has h >= 20 or h < 6
\* (0.0625 with both, 1 with neither); the flat fee is the number of
\* agents times the fee per agent whatever the tier and the hour, and the
\* total is the sum of the three.
C20_DiscountStacking ==
    (cost_info.called /\ ~cost_info.raised) =>
        LET a == cost_info.args
            n == Len(a.agents)
            counts == cost_info.terms.token_counts
            m16 == Multiplier16(a.service_tier, a.hour)
        IN /\ 16 * cost_info.terms.input_token_cost =
                 m16 * (counts.total_input_tokens * COST_PER_1M_INPUT_TOKENS * n)
           /\ 16 * cost_info.terms.output_token_cost =
                 m16 * (counts.total_output_tokens * COST_PER_1M_OUTPUT_TOKENS * n)
           /\ cost_info.terms.agent_cost = n * COST_PER_AGENT
           /\ cost_info.terms.total_cost =
                 n * COST_PER_AGENT + cost_info.terms.input_token_cost
                 + cost_info.terms.output_token_cost
           /\ cost_info.cost_breakdown.night_time_discount_applied
                 <=> (a.hour >= 20 \/ a.hour < 6)

\* a flex-tier cost computed at 20:00: both token terms are a sixteenth of
\* the undiscounted ones and the flat fee is whole
C20_Witness ==
    /\ cost_info.called
    /\ ~cost_info.raised
    /\ cost_info.args.service_tier = "flex"
    /\ cost_info.args.hour = 20
    /\ cost_info.terms.input_token_cost > 0
    /\ 16 * cost_info.terms.input_token_cost =
          cost_info.terms.token_counts.total_input_tokens
          * COST_PER_1M_INPUT_TOKENS * Len(cost_info.args.agents)
    /\ cost_info.terms.agent_cost = Len(cost_info.args.agents) * COST_PER_AGENT

\* round(n / 2) as the usual rounding functions compute it: a half goes up,
\* or a half goes to the even neighbour
RoundHalfUp(n) == (n + 1) \div 2
RoundHalfEven(n) ==
    IF n % 2 = 0 THEN n \div 2
    ELSE IF (n \div 2) % 2 = 0 THEN n \div 2 ELSE n \div 2 + 1

\* C21: when there is no output payload, the output-token count of every
\* agent is round(inputTokens * 2.5), also for an odd inputTokens, where
\* inputTokens * 2.5 ends in one half.
C21_RoundedEstimate ==
    (cost_info.called /\ ~cost_info.raised
       /\ ~OutputsTruthy(cost_info.args.agent_outputs)) =>
        LET per_agent == cost_info.terms.token_counts.per_agent
        IN \A i \in 1..Len(per_agent) :
              per_agent[i].output_tokens \in
                 {RoundHalfUp(5 * per_agent[i].input_tokens),
                  RoundHalfEven(5 * per_agent[i].input_tokens)}

(***************************************************************************)
(* Cost estimation inside a request (checked under SpecEstimate)           *)
(***************************************************************************)
\* the output payload is neither empty nor a str, a list or a dict: its
\* tokens cannot be counted
PayloadUncountable(agent_outputs) ==
    /\ agent_outputs.shape = "other"
    /\ Len(agent_outputs.tokens) > 0

\* C22: a failure of the cost estimate after a successful engine run fails
\* the request: it ends with an error, nothing is deducted or recorded, no
\* success response is built and the response cache is left as it was, and
\* the request does nothing afterwards; no total is made up in its place.
\* An agent whose memory cannot be read does not fail the estimate: its
\* memory counts as zero tokens.
C22_EstimationFailureSurfaced ==
    [][/\ \A r \in R :
            Leaves(r, "cost") =>
               LET a == cost_info'.args
                   fails == cost_info'.raised \/ PayloadUncountable(a.agent_outputs)
               IN /\ fails =>
                       /\ req'[r].pc = "done"
                       /\ req'[r].status_code = 500
                       /\ req'[r].http_status = 500
                       /\ req'[r].deducted = 0
                       /\ req'[r].response = NoResponse
                       /\ context_cache' = context_cache
                       /\ credits' = credits
                       /\ services' = services
                  /\ ~fails =>
                       /\ req'[r].pc = "deduct_select"
                       /\ req'[r].cost >= 1
                       /\ LET per_agent == cost_info'.terms.token_counts.per_agent
                          IN \A i \in 1..Len(a.agents) :
                                \E j \in 1..Len(per_agent) :
                                   /\ per_agent[j].agent_name = a.agents[i].agent_name
                                   /\ a.agents[i].memory.raises =>
                                         per_agent[j].input_tokens =
                                            a.task_tokens + a.agents[i].prompt_tokens
       /\ \A r \in R : (req[r].pc = "done" /\ req[r].status_code = 500) =>
                          req'[r] = req[r]]_vars

\* the engine ran, the estimate failed, and the request ended with an error
\* while the ledger and the cache are untouched
C22_Witness ==
    \E r \in R :
        /\ req[r].pc = "done"
        /\ req[r].engine_ok = 1
        /\ req[r].status_code = 500
        /\ cost_info.called
        /\ cost_info.raised
        /\ PayloadUncountable(cost_info.args.agent_outputs)
        /\ services = <<>>
        /\ context_cache = <<>>
        /\ credits = initial_credits

\* C23: the cost breakdown computed for an execution is part of the
\* response returned to the caller and of the transaction record written
\* for that execution.
C23_BreakdownAttached ==
    \A r \in R :
        (req[r].pc = "done" /\ req[r].kind = "sync" /\ req[r].status_code = 200
           /\ ~req[r].from_cache /\ cost_info.called /\ ~cost_info.raised) =>
            /\ "cost_breakdown" \in DOMAIN req[r].response
            /\ \E i \in 1..Len(services) :
                  /\ services[i].api_key = req[r].api_key
                  /\ "cost_breakdown" \in DOMAIN services[i]

(***************************************************************************)
(* Eviction (checked under SpecEvict)                                      *)
(***************************************************************************)
Min(a, b) == IF a <= b THEN a ELSE b
Entries(cache) == {cache[i] : i \in 1..Len(cache)}

\* the handler of request r stores its response and runs cleanup_cache
Evicts(r) == Leaves(r, "respond") /\ CleanupDue(req[r].current_time)

\* the cache on which that run of cleanup_cache starts
BeforeEviction(r) ==
    Put(context_cache, req[r].cache_key, req'[r].response, req[r].current_time)

\* C24: after an eviction run no entry of age >= TTL is left and at most
\* MAX_CACHE_SIZE entries are left; what is left was there before; every
\* entry removed though it had not expired is no newer than every entry
\* left, and no more entries are removed than the cap asks for.
C24_EvictionRun ==
    [][\A r \in R :
         Evicts(r) =>
            \A stored \in {BeforeEviction(r)} :
            \A before \in {Entries(stored)}, after \in {Entries(context_cache')} :
               \A fresh \in {{e \in before : clock - e.timestamp < CACHE_TTL}} :
                  /\ \A e \in after : clock - e.timestamp < CACHE_TTL
                  /\ Len(context_cache') <= MAX_CACHE_SIZE
                  /\ after \subseteq before
                  /\ \A e \in fresh \ after : \A f \in after : e.timestamp <= f.timestamp
                  /\ Cardinality(after) = Min(Cardinality(fresh), MAX_CACHE_SIZE)
                  /\ Cardinality(after) = Len(context_cache')]_vars

\* at 120, when nothing has expired, an eviction run has cut the cache to
\* its cap by removing the first entry of the bulk
C24_Witness ==
    /\ clock = 120
    /\ req[1].pc = "done"
    /\ req[1].status_code = 200
    /\ ~req[1].from_cache
    /\ Len(context_cache) = MAX_CACHE_SIZE
    /\ context_cache[1].key # <<ToString(1)>>
    /\ InCache(context_cache, generate_cache_key(SpecA))

\* C25: staleness is bounded by the sampling cadence: a request that is
\* handled after an entry has been stale for a whole cleanup interval does
\* not leave that entry in the cache, and does not leave the cache above
\* its cap.
C25_StalenessBounded ==
    [][\A r \in R :
         Leaves(r, "respond") =>
            /\ \A i \in 1..Len(context_cache') :
                  req[r].current_time - context_cache'[i].timestamp
                     < CACHE_TTL + CACHE_CLEANUP_INTERVAL
            /\ req[r].current_time >= FillTime + 1 + CACHE_CLEANUP_INTERVAL =>
                  Len(context_cache') <= MAX_CACHE_SIZE]_vars

(***************************************************************************)
(* The cache and failing requests (checked under SpecJob)                  *)
(***************************************************************************)
\* C26: the response cache changes only when a request that missed the
\* cache, ran on the engine and was billed stores its response; a request
\* that ends in an error (at validation, agent construction, engine run,
\* cost estimate or deduction) leaves the cache as it was.
C26_EntryOnlyAfterSuccess ==
    [][/\ context_cache' # context_cache =>
            \E r \in R :
               /\ Leaves(r, "respond")
               /\ req[r].kind = "sync"
               /\ req'[r].status_code = 200
               /\ ~req'[r].from_cache
               /\ req'[r].engine_ok = 1
               /\ req'[r].deducted = 1
       /\ \A r \in R :
             (req[r].pc # "done" /\ req'[r].pc = "done" /\ req'[r].status_code # 200) =>
                context_cache' = context_cache]_vars

\* the engine ran, the deduction was refused, and the cache is still empty
C26_Witness ==
    \E r \in R :
        /\ req[r].pc = "done"
        /\ req[r].engine_ok = 1
        /\ req[r].status_code = 402
        /\ req[r].deducted = 0
        /\ context_cache = <<>>

(***************************************************************************)
(* Concurrent use of the cache (checked under SpecSafe)                    *)
(***************************************************************************)
\* C27: whatever the interleaving of the requests in flight (those asleep
\* in the flex backoff too) and of the eviction runs, no request fails on
\* the cache (a del of a key that is gone), and every entry of the cache
\* is a whole one: a success response with a timestamp that is not in the
\* future, under a key of its own.
C27_CacheSafe ==
    /\ \A r \in R : req[r].detail # "KeyError"
    /\ \A i \in 1..Len(context_cache) :
          /\ DOMAIN context_cache[i] = {"key", "response", "timestamp"}
          /\ DOMAIN context_cache[i].response = DOMAIN NoResponse
          /\ context_cache[i].response.status = "success"
          /\ context_cache[i].response.job_id \in R
          /\ context_cache[i].timestamp \in 0..clock
          /\ \A j \in 1..Len(context_cache) :
                context_cache[j].key = context_cache[i].key => j = i

\* while a flex request is asleep in its backoff, the eviction run of
\* another request has deleted every entry, the one just stored included
C27_Witness ==
    /\ \E r \in R : req[r].pc = "sleep"
    /\ \E s \in R : req[s].pc = "cleanup_del" /\ Len(req[s].keys_to_delete) = 0
    /\ context_cache = <<>>

(***************************************************************************)
(* The rate limiter (checked under SpecLimit)                              *)
(***************************************************************************)
\* the requests of client ip that passed the limiter no later than
\* TIME_WINDOW after the start (0) of the client's first window
PassedInWindow(ip) ==
    {r \in R : /\ req[r].kind = "limited"
               /\ req[r].client_ip = ip
               /\ req[r].pc = "passed"
               /\ req[r].passed_at <= TIME_WINDOW}

\* C28: for every client, at most RATE_LIMIT requests pass the limiter in
\* the TIME_WINDOW seconds that follow the start of a window, however the
\* client's concurrent requests interleave; the others get a 429.
C28_AtMostRateLimit ==
    \A ip \in Clients : CountSoFar + Cardinality(PassedInWindow(ip)) <= RATE_LIMIT

(***************************************************************************)
(* Deductions without an account (checked under SpecJob)                   *)
(***************************************************************************)
\* C29: a deduction for a caller without a row in the credit table fails
\* with the 404 "record not found" error and writes nothing: no
\* transaction record, no balance; and the request does nothing after it.
C29_AccountNotFound ==
    [][/\ \A r \in R :
            (Leaves(r, "deduct_select") /\ ~credits[UserOf(r)].exists) =>
               /\ req'[r].pc = "done"
               /\ req'[r].status_code = 404
               /\ req'[r].detail = "User credits record not found."
               /\ req'[r].deducted = 0
               /\ services' = services
               /\ credits' = credits
               /\ charged' = charged
       /\ \A r \in R :
            (req[r].pc = "done" /\ req[r].status_code = 404) =>
               /\ req'[r] = req[r]
               /\ ~credits'[UserOf(r)].exists]_vars

\* the engine ran for a caller without a row: the deduction failed with
\* 404 and there is neither a transaction record nor a row
C29_Witness ==
    \E r \in R :
        /\ req[r].pc = "done"
        /\ req[r].engine_ok = 1
        /\ req[r].status_code = 404
        /\ ~credits[UserOf(r)].exists
        /\ services = <<>>

(***************************************************************************)
(* The amount on record (checked under SpecJob)                            *)
(***************************************************************************)
\* C30: the amount in the transaction record of a successful deduction is
\* the amount taken from the balances of the account, also when it is a
\* fraction of a credit.
C30_RecordedAmount ==
    [][\A r \in R :
         (req[r].pc = "deduct_update" /\ req'[r].deducted = req[r].deducted + 1) =>
            /\ Len(services) > 0
            /\ services[Len(services)].user_id = UserOf(r)
            /\ services[Len(services)].charge_credit * UnitsPerCredit =
                  Total(credits[UserOf(r)]) - Total(credits'[UserOf(r)])]_vars

(***************************************************************************)
(* Token counts of the output payload (checked under SpecCost)             *)
(***************************************************************************)
\* C31: for a non-empty output payload of whatever shape, the output-token
\* count of every agent is the integer token count of the payload's text,
\* so that the cost is computed and the totals are integers.
C31_IntegerOutputTokens ==
    (cost_info.called /\ OutputsTruthy(cost_info.args.agent_outputs)) =>
        /\ ~cost_info.raised
        /\ LET per_agent == cost_info.terms.token_counts.per_agent
           IN \A i \in 1..Len(per_agent) :
                 /\ per_agent[i].output_tokens \in Nat
                 /\ per_agent[i].output_tokens =
                       SumSeq(cost_info.args.agent_outputs.tokens)

(***************************************************************************)
(* The batch endpoint (checked under SpecPool)                             *)
(***************************************************************************)
\* the swarms submitted with the batch led by slot b
Members(b) == {x \in R : req[x].kind = "batch" /\ req[x].batch = b}

BatchComplete(b) == Members(b) # {} /\ \A x \in Members(b) : req[x].pc = "done"

\* C32: the results of a batch hold exactly one entry for every swarm
\* submitted; the entry of a swarm that failed in validation, in the engine
\* or in billing has status "error" and the swarm's name, the entry of a
\* swarm that ran and was billed has status "success", and a step of one
\* swarm of the batch, a failure included, leaves the other swarms as they
\* were.
C32_BatchIsolated ==
    [][/\ \A b \in R :
            BatchComplete(b)' =>
               /\ Cardinality(batch_results(b)') = Cardinality(Members(b)')
               /\ Cardinality({e[1] : e \in batch_results(b)'}) = Cardinality(Members(b)')
               /\ \A x \in Members(b)' :
                    \E e \in batch_results(b)' :
                       /\ e[1] = x
                       /\ e[2].swarm_name = req'[x].swarm.name
                       /\ e[2].status \in {"success", "error"}
                       /\ e[2].status = "success" <=>
                             (req'[x].engine_ok = 1 /\ req'[x].deducted = 1)
                       /\ e[2].status = "error" => req'[x].status_code \in {400, 402, 404, 429, 500}
       /\ \A s, t \in R :
            (s # t /\ req[s].kind = "batch" /\ req[t].kind = "batch"
               /\ req'[s] # req[s]) => req'[t] = req[t]]_vars

\* a batch of two swarms is complete: one failed and one succeeded
C32_Witness ==
    \E s, t \in R :
        /\ s # t
        /\ BatchComplete(req[s].batch)
        /\ req[s].batch = req[t].batch
        /\ req[s].kind = "batch"
        /\ req[t].kind = "batch"
        /\ BatchEntry(req[s]).status = "error"
        /\ BatchEntry(req[t]).status = "success"
        /\ req[t].deducted = 1
        /\ Cardinality(batch_results(req[s].batch)) = 2

(***************************************************************************)
(* The agent batch (checked under SpecAgents)                              *)
(***************************************************************************)
\* C33: for a batch of N agent completions the list returned has N
\* entries in input order, and each of them is the result envelope of its
\* completion or an entry {success: False, error}: the completion was
\* processed.
C33_EveryCompletionProcessed ==
    \A r \in R :
        (req[r].pc = "done" /\ req[r].kind = "agent_batch"
           /\ Len(req[r].agent_completions) > 0) =>
            /\ Len(req[r].output) = Len(req[r].agent_completions)
            /\ \A i \in 1..Len(req[r].output) :
                  /\ req[r].output[i].agent_completion = req[r].agent_completions[i]
                  /\ ~req[r].output[i].coroutine

(***************************************************************************)
(* The executable input (checked under SpecValidate)                       *)
(***************************************************************************)
\* validate_swarm_spec returned for the swarm of slot r
Resolved(r) ==
    req[r].pc = "done" /\ req[r].kind = "validate" /\ req[r].status_code = 0

\* C34: for a swarm with a task and messages the executable input is the
\* stringified messages followed by the user task; with a task only it is
\* the task, with messages only the stringified messages, and with tasks
\* only the list of tasks.
C34_ExecutableInput ==
    \A r \in R :
        Resolved(r) =>
            LET swarm == req[r].swarm
                input == req[r].output
            IN /\ (Truthy(swarm.task) /\ Truthy(swarm.messages)) =>
                     /\ input.task = Str(any_to_str(swarm.messages.s)
                                         \o <<" \n\n User: ">> \o swarm.task.s)
                     /\ input.tasks = None
               /\ (Truthy(swarm.task) /\ swarm.messages.none /\ swarm.tasks.none) =>
                     input = [task |-> swarm.task, tasks |-> None]
               /\ (Truthy(swarm.messages) /\ swarm.task.none /\ swarm.tasks.none) =>
                     input = [task |-> Str(any_to_str(swarm.messages.s)), tasks |-> None]
               /\ (Truthy(swarm.tasks) /\ swarm.task.none /\ swarm.messages.none) =>
                     input = [task |-> None, tasks |-> swarm.tasks]

(***************************************************************************)
(* The response cache and the callers (checked under SpecCallers)          *)
(***************************************************************************)
\* the synchronous request of slot r ended with a success response
Succeeded(r) ==
    req[r].pc = "done" /\ req[r].kind = "sync" /\ req[r].status_code = 200

\* the slot of the request whose execution produced the response of r
Producer(r) == req[r].response.job_id

\* C35 as stated: a response produced by an execution billed to one caller
\* is never returned from the cache to another caller; every caller that
\* receives a success response has been charged.
C35_CacheIsolated ==
    \A r \in R :
        Succeeded(r) =>
            /\ req[Producer(r)].api_key = req[r].api_key
            /\ charged[UserOf(r)] >= 1

\* C35: a response returned from the response cache was produced by a
\* successful execution of a swarm with the same cache key that was billed
\* to the caller whose request missed the cache, and the request that
\* receives it, of whichever caller, is not charged; a success response
\* that does not come from the cache was billed to its own caller.
C35_CacheShared ==
    \A r \in R :
        Succeeded(r) =>
            IF req[r].from_cache
            THEN /\ Producer(r) \in R \ {r}
                 /\ Succeeded(Producer(r))
                 /\ ~req[Producer(r)].from_cache
                 /\ req[Producer(r)].deducted = 1
                 /\ req[Producer(r)].response = req[r].response
                 /\ generate_cache_key(req[Producer(r)].swarm) =
                       generate_cache_key(req[r].swarm)
                 /\ \E i \in 1..Len(services) :
                       services[i].api_key = req[Producer(r)].api_key
                 /\ req[r].deducted = 0
                 /\ req[r].engine_runs = 0
            ELSE /\ Producer(r) = r
                 /\ req[r].deducted = 1
                 /\ charged[UserOf(r)] >= 1
                 /\ \E i \in 1..Len(services) : services[i].api_key = req[r].api_key

\* the second caller received from the cache the response that was billed
\* to the first, and was charged nothing
C35_Witness ==
    \E r \in R :
        /\ Succeeded(r)
        /\ req[r].from_cache
        /\ req[Producer(r)].api_key # req[r].api_key
        /\ req[Producer(r)].deducted = 1
        /\ charged[UserOf(r)] = 0
        /\ charged[UserOf(Producer(r))] >= 1

(***************************************************************************)
(* Records without a deduction (checked under SpecJob)                     *)
(***************************************************************************)
\* the transaction records written for user u
RecordsOf(u) == {i \in 1..Len(services) : services[i].user_id = u}

\* the requests of user u whose balance update is committed, and those
\* that have written their record and are about to update the balances
CommittedOf(u) == {r \in R : UserOf(r) = u /\ req[r].deducted >= 1}
UpdatingOf(u) == {r \in R : UserOf(r) = u /\ req[r].pc = "deduct_update"}

\* C36: every transaction record belongs to a balance update committed
\* for the same caller; a deduction that ended in an error has left no
\* record behind.
C36_NoOrphanRecords ==
    \A u \in Users :
        /\ Cardinality(RecordsOf(u)) <=
              Cardinality(CommittedOf(u) \cup UpdatingOf(u))
        /\ \A r \in R :
              (UserOf(r) = u /\ req[r].pc = "done" /\ req[r].status_code # 200
                 /\ CommittedOf(u) = {} /\ UpdatingOf(u) = {}) => RecordsOf(u) = {}

(***************************************************************************)
(* Consistency of the token counts (checked under SpecCost)                *)
(***************************************************************************)
\* the sum of field f over the per-agent table
RECURSIVE SumOf(_, _)
SumOf(per_agent, f) ==
    IF Len(per_agent) = 0 THEN 0
    ELSE per_agent[1][f] + SumOf(Tail(per_agent), f)

\* C37: for every agent list, repeated agent names included, the per-agent
\* table has one entry per agent, total_input_tokens is the sum of the
\* per-agent input_tokens, total_output_tokens the sum of the per-agent
\* output_tokens, and total_tokens the sum of the two.
C37_BreakdownConsistent ==
    (cost_info.called /\ ~cost_info.raised) =>
        LET counts == cost_info.cost_breakdown.token_counts
        IN /\ Len(counts.per_agent) = Len(cost_info.args.agents)
           /\ counts.total_input_tokens = SumOf(counts.per_agent, "input_tokens")
           /\ counts.total_output_tokens = SumOf(counts.per_agent, "output_tokens")
           /\ counts.total_input_tokens + counts.total_output_tokens =
                 SumOf(counts.per_agent, "total_tokens")

(***************************************************************************)
(* The fingerprint (checked under SpecCallers)                             *)
(***************************************************************************)
\* the fields of an agent and of a swarm that the key is made from
RelevantAgent(agent) ==
    <<agent.agent_name, agent.model_name, agent.system_prompt,
      agent.temperature, agent.max_loops>>

RelevantFields(swarm) ==
    <<swarm.name, swarm.task, swarm.swarm_type, swarm.max_loops,
      swarm.return_history, swarm.tasks, swarm.messages,
      [i \in 1..Len(swarm.agents) |-> RelevantAgent(swarm.agents[i])]>>

\* C38: two swarms get the same cache key only if they agree on name,
\* task, swarm type, loop bound, history flag, tasks, messages and on the
\* name, model, prompt, temperature and loop bound of every agent, also
\* when a name or a task holds a '|'.
C38_FingerprintInjective ==
    \A r, s \in R :
        (/\ req[r].kind = "sync"
         /\ req[s].kind = "sync"
         /\ generate_cache_key(req[r].swarm) = generate_cache_key(req[s].swarm)) =>
            RelevantFields(req[r].swarm) = RelevantFields(req[s].swarm)

(***************************************************************************)
(* The agent cache and the history (checked under SpecAgents)              *)
(***************************************************************************)
\* C39: an agent completion is answered from the agent cache only with the
\* result of a completion that ran the same input: same agent
\* configuration, same task and same history.
C39_SameInputOnHit ==
    \A r \in R :
        (req[r].kind = "agent" /\ req[r].pc = "done" /\ req[r].from_cache) =>
            /\ req[Producer(r)].completion.agent_config = req[r].completion.agent_config
            /\ req[Producer(r)].completion.task = req[r].completion.task
            /\ req[Producer(r)].completion.history = req[r].completion.history
            /\ agent_task(req[Producer(r)].completion) = agent_task(req[r].completion)

====
